---- MODULE Spec2Model ----
(***************************************************************************)
(* Schedule aggregation, type filtering and time classification of the     *)
(* sports-management dashboard: the player schedules page, the coach       *)
(* schedules page, the admin schedules page, the player dashboard and the  *)
(* coach dashboard, over the remote tables user_profiles, teams,           *)
(* practice_schedules, meeting_schedules, schedules, game_schedules and    *)
(* announcements.                                                          *)
(*                                                                         *)
(* Values.  Identifiers and instants are naturals; Null (-1) is the SQL    *)
(* NULL / JS null of a numeric or timestamp column.  Strings that the code *)
(* inspects character by character (title, description, location, search   *)
(* term) are sequences of one-character strings; NullStr is their null.    *)
(* A query result is a record [error, data]; as in supabase-js, data is    *)
(* null exactly when error is set, so `if (data)` is modelled by ~error.   *)
(***************************************************************************)
EXTENDS Integers, Sequences, FiniteSets, TLC

VARIABLES
    page,               \* which page component is mounted
    pc,                 \* position of the page's load routine
    now,                \* the wall clock, what `new Date()` returns
    authUser,           \* the signed-in user id, or Null
    authFails,          \* whether auth.getUser() answers with an authError
    user_profiles,      \* table user_profiles
    teams,              \* table teams
    practice_schedules, \* table practice_schedules
    meeting_schedules,  \* table meeting_schedules
    schedules_tbl,      \* table schedules (games: team1_id, team2_id)
    game_schedules,     \* table game_schedules (read by the coach page)
    announcements_tbl,  \* table announcements
    currentDate,        \* the `new Date()` put into the .gte filters (dashboards)
    teamPlayers,        \* useState teammates (player) / teamPlayers (coach dashboard)
    announcements,      \* useState announcements (dashboards)
    userRole,           \* useState userRole (coach dashboard)
    playersResult,      \* result slot of the players query (coach dashboard)
    announcementsResult, \* result slot of the announcements query (coach dashboard)
    localTeam,          \* locals teamId, teamName of fetchCoachData (coach dashboard)
    profile,            \* local playerProfile / profile of the load routine
    playerTeam,         \* useState playerTeam (player page)
    coachTeamId,        \* useState coachTeamId (coach page)
    teamName,           \* useState teamName (coach page)
    practiceRes,        \* result slot of the practice query
    meetingRes,         \* result slot of the meeting query
    gameRes,            \* result slot of the game query
    schedules,          \* useState schedules of the mounted page
    loading,            \* useState loading
    error,              \* useState error (player, coach) / message (admin)
    activeFilter,       \* useState activeFilter (player), filter (coach), filterType (admin)
    searchTerm,         \* useState searchTerm (coach, admin)
    filterTeam,         \* useState filterTeam (admin)
    filteredSchedules,  \* useState filteredSchedules (admin)
    filterNow,          \* the local `now` of the last filterSchedules run (admin)
    previous,           \* history: the list held when the running invocation started
    reloads,            \* history: how many times the load routine was invoked again
    ops,                \* the handleDeleteSchedule calls in flight (coach page)
    writes,             \* history: the inserts, updates and deletes issued by forms
    form,               \* state of the mounted form or detail component
    request,            \* the request the middleware is handling
    response            \* what the middleware answered

vars == <<page, pc, now, authUser, authFails, user_profiles, teams,
          practice_schedules, meeting_schedules, schedules_tbl, game_schedules,
          announcements_tbl, currentDate, teamPlayers, announcements, userRole,
          playersResult, announcementsResult, localTeam,
          profile, playerTeam, coachTeamId, teamName,
          practiceRes, meetingRes, gameRes,
          schedules, loading, error, activeFilter, searchTerm, filterTeam,
          filteredSchedules, filterNow,
          previous, reloads, ops, writes, form, request, response>>

dbVars == <<authUser, authFails, user_profiles, teams, practice_schedules,
            meeting_schedules, schedules_tbl, game_schedules, announcements_tbl>>

formVars == <<previous, reloads, ops, writes, form, request, response>>

dashVars == <<currentDate, teamPlayers, announcements, userRole,
              playersResult, announcementsResult, localTeam, formVars>>

slotVars == <<practiceRes, meetingRes, gameRes>>

uiVars == <<activeFilter, searchTerm, filterTeam, filteredSchedules, filterNow>>

----------------------------------------------------------------------------
(* Bounds *)

MaxTime == 2        \* start times are 1..MaxTime
MaxRows == 3        \* rows of the signed-in user's team over the schedule tables

Null == 0 - 1
NullStr == <<"null">>
NoError == "null"
NoRow == [id |-> Null]
Pending == [error |-> FALSE, data |-> <<>>, done |-> FALSE]

Times == 1..MaxTime
Teams == {1, 2}     \* team 1 is the signed-in user's team, team 2 another one

----------------------------------------------------------------------------
(* JavaScript and PostgREST primitives *)

\* new Date(x).getTime(): null converts to the epoch, 0
DateGetTime(t) == IF t = Null THEN 0 ELSE t

\* { ...row, k: v, ... }: the fields of o override those of r
Spread(r, o) ==
    [f \in (DOMAIN r) \cup (DOMAIN o) |-> IF f \in DOMAIN o THEN o[f] ELSE r[f]]

\* the comparator with its operands exchanged: a descending sort
CompareStartReversed(a, b) == DateGetTime(b.start_time) - DateGetTime(a.start_time)

\* (a, b) => new Date(a.start_time).getTime() - new Date(b.start_time).getTime()
CompareStart(a, b) == DateGetTime(a.start_time) - DateGetTime(b.start_time)

\* Array.prototype.sort with that comparator.  The sort is stable (ES2019):
\* each element is inserted after the last one that does not compare greater.
\* an unstable sort: the element passes the ones that compare equal
RECURSIVE InsertSortedUnstable(_, _)
InsertSortedUnstable(e, s) ==
    IF s = <<>> THEN <<e>>
    ELSE IF CompareStart(s[Len(s)], e) < 0 THEN Append(s, e)
    ELSE Append(InsertSortedUnstable(e, SubSeq(s, 1, Len(s) - 1)), s[Len(s)])

RECURSIVE InsertSorted(_, _)
InsertSorted(e, s) ==
    IF s = <<>> THEN <<e>>
    ELSE IF CompareStart(s[Len(s)], e) <= 0 THEN Append(s, e)
    ELSE Append(InsertSorted(e, SubSeq(s, 1, Len(s) - 1)), s[Len(s)])

\* a sort that takes the id for a key of the merged list and drops an event
\* whose id is already there
RECURSIVE SortByStartDistinct(_)
SortByStartDistinct(s) ==
    IF s = <<>> THEN <<>>
    ELSE LET rest == SortByStartDistinct(SubSeq(s, 1, Len(s) - 1))
         IN  IF \E i \in 1..Len(rest) : rest[i].id = s[Len(s)].id
               THEN rest
               ELSE InsertSorted(s[Len(s)], rest)

RECURSIVE SortByStart(_)
SortByStart(s) ==
    IF s = <<>> THEN <<>>
    ELSE InsertSorted(s[Len(s)], SortByStart(SubSeq(s, 1, Len(s) - 1)))

\* .order('start_time', { ascending: true }): PostgreSQL puts NULL last and
\* leaves the order of equal keys open.
DbOrdered(a, b) ==
    \/ b.start_time = Null
    \/ a.start_time # Null /\ a.start_time <= b.start_time

OrderedBy(S) ==
    { q \in [1..Cardinality(S) -> S] :
        /\ \A i, j \in 1..Cardinality(S) : i # j => q[i] # q[j]
        /\ \A i \in 1..(Cardinality(S) - 1) : DbOrdered(q[i], q[i + 1]) }

\* .order() is absent: the rows come in any order
AnyOrder(S) ==
    { q \in [1..Cardinality(S) -> S] :
        \A i, j \in 1..Cardinality(S) : i # j => q[i] # q[j] }

\* .order('created_at', { ascending: false })
NewestFirst(S) ==
    { q \in AnyOrder(S) :
        \A i \in 1..(Cardinality(S) - 1) : q[i].created_at >= q[i + 1].created_at }

\* .limit(n), and Array.prototype.slice(0, n)
Limit(q, n) == SubSeq(q, 1, IF Len(q) < n THEN Len(q) ELSE n)

----------------------------------------------------------------------------
(* Rows of the tables *)

Letter(i) == IF i = 1 THEN "a" ELSE IF i = 2 THEN "B" ELSE "c"

PracticeRow(i, a) ==
    [id |-> i, team_id |-> a.team_id, title |-> <<"p", Letter(i)>>,
     description |-> NullStr, location |-> NullStr,
     start_time |-> a.start_time, end_time |-> Null]

\* meeting_type is free text for the pages: a value of the form's list, a
\* value outside it, no value
MeetingType(i) == IF i = 1 THEN "team_meeting" ELSE IF i = 2 THEN "huddle" ELSE "null"

\* schedule_type of a game row
ScheduleType(i) == IF i = 1 THEN "scrimmage" ELSE IF i = 2 THEN "friendly" ELSE "null"

MeetingRow(i, a) ==
    [id |-> i, team_id |-> a.team_id, title |-> <<"m", Letter(i)>>,
     description |-> <<"p">>, location |-> NullStr,
     start_time |-> a.start_time, end_time |-> Null,
     meeting_type |-> MeetingType(i)]

\* a game of team 1: at home for odd ids, away for even ids
GameRow(i, a) ==
    [id |-> i, team1_id |-> IF i % 2 = 1 THEN 1 ELSE a.opponent,
     team2_id |-> IF i % 2 = 1 THEN a.opponent ELSE 1,
     title |-> <<"g", Letter(i)>>, description |-> NullStr,
     location |-> <<"B">>, start_time |-> a.start_time, end_time |-> Null,
     schedule_type |-> ScheduleType(i)]

CoachGameRow(i, a) ==
    [id |-> i, team_id |-> a.team_id, title |-> <<"g", Letter(i)>>,
     description |-> NullStr, location |-> <<"B">>,
     start_time |-> a.start_time, end_time |-> Null]

TeamRow(i) == [id |-> i, name |-> <<"t", Letter(i)>>]

ProfileRow(u, r, t) == [id |-> u, user_id |-> u, role |-> r, team_id |-> t]

OwnAttrs(StartTimes) == [team_id : {1}, start_time : StartTimes]
GameAttrs(StartTimes) == [opponent : {2}, start_time : StartTimes]

\* every table of n rows of team 1, with ids 1..n
PracticeTables(n, StartTimes) ==
    { { PracticeRow(i, f[i]) : i \in 1..n } : f \in [1..n -> OwnAttrs(StartTimes)] }

MeetingTables(n, StartTimes) ==
    { { MeetingRow(i, f[i]) : i \in 1..n } : f \in [1..n -> OwnAttrs(StartTimes)] }

GameTables(n, StartTimes) ==
    { { GameRow(i, f[i]) : i \in 1..n } : f \in [1..n -> GameAttrs(StartTimes)] }

CoachGameTables(n, StartTimes) ==
    { { CoachGameRow(i, f[i]) : i \in 1..n } : f \in [1..n -> OwnAttrs(StartTimes)] }

\* rows of another team, which no query for team 1 may return
OtherPractice == PracticeRow(9, [team_id |-> 2, start_time |-> 1])
OtherMeeting == MeetingRow(9, [team_id |-> 2, start_time |-> 1])
OtherGame ==
    [id |-> 9, team1_id |-> 2, team2_id |-> Null, title |-> <<"g", "c">>,
     description |-> NullStr, location |-> NullStr, start_time |-> 1,
     end_time |-> Null, schedule_type |-> "scrimmage"]
OtherCoachGame == CoachGameRow(9, [team_id |-> 2, start_time |-> 1])

\* a game of team 1 in the table schedules
HomeGame == GameRow(1, [opponent |-> 2, start_time |-> 1])

\* a practice of team 1 in a table that has columns named type and source_table
TaggedPractice ==
    Spread(PracticeRow(8, [team_id |-> 1, start_time |-> MaxTime]),
           [type |-> "game", source_table |-> "schedules"])

Roles == {"player", "coach", "admin"}

AnnouncementRow(i, t) ==
    [id |-> i, team_id |-> t, title |-> <<"n", Letter(i)>>, created_at |-> i]

\* a team announcement, a global one, and one of another team
Announcements ==
    { AnnouncementRow(1, 1), AnnouncementRow(2, Null), AnnouncementRow(3, 2) }

----------------------------------------------------------------------------
(* The data source: supabase.from(table).select('*')... *)

\* one finished query: its rows in an order the ORDER BY allows, or an error
QueryResults(S) ==
    { [error |-> FALSE, data |-> q, done |-> TRUE] : q \in OrderedBy(S) }
    \cup { [error |-> TRUE, data |-> <<>>, done |-> TRUE] }

\* one finished query whose rows may come in the orders Q
ResultsOf(Q) ==
    { [error |-> FALSE, data |-> q, done |-> TRUE] : q \in Q }
    \cup { [error |-> TRUE, data |-> <<>>, done |-> TRUE] }

\* one finished query with .limit(n)
LimitedResults(Q, n) == ResultsOf({ Limit(q, n) : q \in Q })

\* .eq('team_id', teamId)
EqTeam(T, teamId) == { r \in T : r.team_id = teamId }

\* a time filter that lets every row through
GteStartUnfiltered(T, t) == T

\* .gte('start_time', t): a NULL start_time satisfies no comparison
GteStart(T, t) == { r \in T : r.start_time # Null /\ r.start_time >= t }

\* .eq('team_id', teamId).eq('role', 'player')
TeamPlayers(teamId) ==
    { r \in user_profiles : r.team_id = teamId /\ r.role = "player" }

\* .or(`team1_id.eq.${id},team2_id.eq.${id}`)
OrTeams(T, teamId) == { r \in T : r.team1_id = teamId \/ r.team2_id = teamId }

\* .eq('user_id', user.id).single(): the row, or null unless exactly one matches
SingleProfile(u) ==
    LET M == { r \in user_profiles : r.user_id = u }
    IN  IF Cardinality(M) = 1 THEN (CHOOSE r \in M : TRUE) ELSE NoRow

----------------------------------------------------------------------------
(* Player schedules page: loadData *)

\* { ...schedule, type: 'practice', source_table: 'practice_schedules' }
PlayerPractice(r) ==
    Spread(r, [type |-> "practice", source_table |-> "practice_schedules"])

\* { ...schedule, type: 'meeting', source_table: 'meeting_schedules' }
PlayerMeeting(r) ==
    Spread(r, [type |-> "meeting", source_table |-> "meeting_schedules"])

\* a game event that also fills a missing end_time with the start time
PlayerGameDefaulted(r, teamId) ==
    Spread(r, [type |-> "game", source_table |-> "schedules", team_id |-> teamId,
               end_time |-> IF r.end_time = Null THEN r.start_time ELSE r.end_time])

\* { ...schedule, type: 'game', source_table: 'schedules', team_id: currentTeam.id }
PlayerGame(r, teamId) ==
    Spread(r, [type |-> "game", source_table |-> "schedules", team_id |-> teamId])

\* a merge that gives up on every source as soon as one query failed
PlayerCombineAllOrNothing(p, m, g, teamId) ==
    LET Game(r) == PlayerGame(r, teamId)
    IN  IF p.error \/ m.error \/ g.error THEN <<>>
        ELSE [i \in 1..Len(p.data) |-> PlayerPractice(p.data[i])]
             \o [i \in 1..Len(m.data) |-> PlayerMeeting(m.data[i])]
             \o [i \in 1..Len(g.data) |-> Game(g.data[i])]

\* allSchedules after the three forEach blocks; a null data adds nothing
PlayerCombine(p, m, g, teamId) ==
    LET Game(r) == PlayerGame(r, teamId)
    IN  (IF p.error THEN <<>> ELSE [i \in 1..Len(p.data) |-> PlayerPractice(p.data[i])])
        \o (IF m.error THEN <<>> ELSE [i \in 1..Len(m.data) |-> PlayerMeeting(m.data[i])])
        \o (IF g.error THEN <<>> ELSE [i \in 1..Len(g.data) |-> Game(g.data[i])])

\* a return or the end of the try block, then finally { setLoading(false) }
PlayerFinish(err, list) ==
    /\ error' = err
    /\ schedules' = list
    /\ loading' = FALSE
    /\ pc' = "done"

PlayerLoadStart ==
    /\ page = "player" /\ pc = "mount"
    /\ loading' = TRUE
    /\ error' = NoError
    /\ pc' = "getUser"
    /\ practiceRes' = Pending /\ meetingRes' = Pending /\ gameRes' = Pending
    /\ UNCHANGED <<page, now, dbVars, dashVars, profile, playerTeam, coachTeamId, teamName,
                   schedules, uiVars>>

PlayerGetUser ==
    /\ page = "player" /\ pc = "getUser"
    /\ IF authFails
         THEN PlayerFinish("Authentication error", schedules)
         ELSE IF authUser = Null
           THEN PlayerFinish("Please log in to access this page", schedules)
           ELSE /\ pc' = "profile"
                /\ UNCHANGED <<error, schedules, loading>>
    /\ UNCHANGED <<page, now, dbVars, dashVars, profile, playerTeam, coachTeamId, teamName,
                   slotVars, uiVars>>

PlayerGetProfile ==
    /\ page = "player" /\ pc = "profile"
    /\ \E ok \in BOOLEAN :
         LET playerProfile == IF ok THEN SingleProfile(authUser) ELSE NoRow
         IN  IF playerProfile.id = Null
               THEN /\ PlayerFinish("Player profile not found", schedules)
                    /\ UNCHANGED profile
               ELSE IF playerProfile.role # "player"
                 THEN /\ PlayerFinish("You are not authorized as a player.", schedules)
                      /\ UNCHANGED profile
                 ELSE /\ profile' = playerProfile
                      /\ pc' = "teams"
                      /\ UNCHANGED <<error, schedules, loading>>
    /\ UNCHANGED <<page, now, dbVars, dashVars, playerTeam, coachTeamId, teamName,
                   slotVars, uiVars>>

\* a load routine that leaves the list alone when the player has no team
PlayerGetTeamsRetains ==
    /\ page = "player" /\ pc = "teams"
    /\ \E ok \in BOOLEAN :
         LET found == IF ok THEN { t \in teams : t.id = profile.team_id } ELSE {}
             team  == IF found = {} THEN NoRow ELSE CHOOSE t \in found : TRUE
         IN  /\ playerTeam' = team
             /\ IF team.id # Null
                  THEN /\ pc' = "queries"
                       /\ UNCHANGED <<error, schedules, loading>>
                  ELSE PlayerFinish(error, schedules)
    /\ profile' = IF pc' = "done" THEN NoRow ELSE profile
    /\ UNCHANGED <<page, now, dbVars, dashVars, coachTeamId, teamName, slotVars, uiVars>>

PlayerGetTeams ==
    /\ page = "player" /\ pc = "teams"
    /\ \E ok \in BOOLEAN :
         LET found == IF ok THEN { t \in teams : t.id = profile.team_id } ELSE {}
             team  == IF found = {} THEN NoRow ELSE CHOOSE t \in found : TRUE
         IN  /\ playerTeam' = team
             /\ IF team.id # Null
                  THEN /\ pc' = "queries"
                       /\ UNCHANGED <<error, schedules, loading>>
                  ELSE PlayerFinish(error, <<>>)
    /\ profile' = IF pc' = "done" THEN NoRow ELSE profile
    /\ UNCHANGED <<page, now, dbVars, dashVars, coachTeamId, teamName, slotVars, uiVars>>

PlayerPracticeDone ==
    /\ page = "player" /\ pc = "queries" /\ ~practiceRes.done
    /\ practiceRes' \in QueryResults(EqTeam(practice_schedules, playerTeam.id))
    /\ UNCHANGED <<page, pc, now, dbVars, dashVars, profile, playerTeam, coachTeamId, teamName,
                   meetingRes, gameRes, schedules, loading, error, uiVars>>

PlayerMeetingDone ==
    /\ page = "player" /\ pc = "queries" /\ ~meetingRes.done
    /\ meetingRes' \in QueryResults(EqTeam(meeting_schedules, playerTeam.id))
    /\ UNCHANGED <<page, pc, now, dbVars, dashVars, profile, playerTeam, coachTeamId, teamName,
                   practiceRes, gameRes, schedules, loading, error, uiVars>>

\* a game query that shares its result slot with a practice query in flight
PlayerGameDoneSharedSlot ==
    /\ page = "player" /\ pc = "queries" /\ ~gameRes.done
    /\ gameRes' \in QueryResults(OrTeams(schedules_tbl, playerTeam.id))
    /\ practiceRes' = IF practiceRes.done THEN practiceRes ELSE gameRes'
    /\ UNCHANGED <<page, pc, now, dbVars, dashVars, profile, playerTeam, coachTeamId, teamName,
                   meetingRes, schedules, loading, error, uiVars>>

PlayerGameDone ==
    /\ page = "player" /\ pc = "queries" /\ ~gameRes.done
    /\ gameRes' \in QueryResults(OrTeams(schedules_tbl, playerTeam.id))
    /\ UNCHANGED <<page, pc, now, dbVars, dashVars, profile, playerTeam, coachTeamId, teamName,
                   practiceRes, meetingRes, schedules, loading, error, uiVars>>

\* a join that reports an error when no source answered
PlayerJoinReportsFailure ==
    /\ page = "player" /\ pc = "queries"
    /\ practiceRes.done /\ meetingRes.done /\ gameRes.done
    /\ PlayerFinish(
         IF practiceRes.error /\ meetingRes.error /\ gameRes.error
           THEN "Failed to load schedules." ELSE error,
         SortByStart(PlayerCombine(practiceRes, meetingRes, gameRes, playerTeam.id)))
    /\ profile' = NoRow
    /\ UNCHANGED <<page, now, dbVars, dashVars, playerTeam, coachTeamId, teamName,
                   slotVars, uiVars>>

\* Promise.all has settled: combine, sort, setSchedules, finally
PlayerJoin ==
    /\ page = "player" /\ pc = "queries"
    /\ practiceRes.done /\ meetingRes.done /\ gameRes.done
    /\ PlayerFinish(error,
         SortByStart(PlayerCombine(practiceRes, meetingRes, gameRes, playerTeam.id)))
    /\ profile' = NoRow
    /\ UNCHANGED <<page, now, dbVars, dashVars, playerTeam, coachTeamId, teamName,
                   slotVars, uiVars>>

----------------------------------------------------------------------------
(* Coach schedules page: fetchCoachData and fetchAllSchedules *)

\* a practice event that is given a subtype
CoachPracticeWithSubtype(r) ==
    [id |-> r.id, type |-> "practice", title |-> r.title,
     description |-> r.description, start_time |-> r.start_time,
     end_time |-> r.end_time, location |-> r.location,
     subtype |-> "practice", originalData |-> r]

CoachPractice(r) ==
    [id |-> r.id, type |-> "practice", title |-> r.title,
     description |-> r.description, start_time |-> r.start_time,
     end_time |-> r.end_time, location |-> r.location, originalData |-> r]

\* a meeting event whose subtype is checked against the list of the form
CoachMeetingValidated(r) ==
    [id |-> r.id, type |-> "meeting", title |-> r.title,
     description |-> r.description, start_time |-> r.start_time,
     end_time |-> r.end_time, location |-> r.location,
     subtype |-> IF r.meeting_type \in {"team_meeting", "parent_meeting",
                                         "coach_meeting", "other"}
                   THEN r.meeting_type ELSE "other",
     originalData |-> r]

CoachMeeting(r) ==
    [id |-> r.id, type |-> "meeting", title |-> r.title,
     description |-> r.description, start_time |-> r.start_time,
     end_time |-> r.end_time, location |-> r.location,
     subtype |-> r.meeting_type, originalData |-> r]

CoachGame(r) ==
    [id |-> r.id, type |-> "game", title |-> r.title,
     description |-> r.description, start_time |-> r.start_time,
     end_time |-> r.end_time, location |-> r.location, originalData |-> r]

\* combinedSchedules after the three forEach blocks
CoachCombine(p, m, g) ==
    (IF p.error THEN <<>> ELSE [i \in 1..Len(p.data) |-> CoachPractice(p.data[i])])
    \o (IF m.error THEN <<>> ELSE [i \in 1..Len(m.data) |-> CoachMeeting(m.data[i])])
    \o (IF g.error THEN <<>> ELSE [i \in 1..Len(g.data) |-> CoachGame(g.data[i])])

\* the routine has returned
CoachEnd ==
    /\ pc' = "done"
    /\ profile' = NoRow

CoachLoadStart ==
    /\ page = "coach" /\ pc = "mount"
    /\ loading' = TRUE
    /\ error' = NoError
    /\ pc' = "getUser"
    /\ practiceRes' = Pending /\ meetingRes' = Pending /\ gameRes' = Pending
    /\ UNCHANGED <<page, now, dbVars, dashVars, profile, playerTeam, coachTeamId, teamName,
                   schedules, uiVars>>

\* no user: router.push('/login') and return, loading is left as it is
CoachGetUser ==
    /\ page = "coach" /\ pc = "getUser"
    /\ IF authFails \/ authUser = Null
         THEN /\ page' = "login"
              /\ CoachEnd
         ELSE /\ pc' = "profile"
              /\ UNCHANGED <<page, profile>>
    /\ UNCHANGED <<now, dbVars, dashVars, playerTeam, coachTeamId, teamName, slotVars,
                   schedules, loading, error, uiVars>>

\* a profile check that looks at the team only, not at the role
CoachGetProfileAnyRole ==
    /\ page = "coach" /\ pc = "profile"
    /\ \E ok \in BOOLEAN :
         LET p == IF ok THEN SingleProfile(authUser) ELSE NoRow
         IN  IF p.id = Null
               THEN /\ error' = "Access denied. Coach role required."
                    /\ loading' = FALSE
                    /\ CoachEnd
                    /\ UNCHANGED coachTeamId
               ELSE IF p.team_id = Null
                 THEN /\ error' = "No team assigned to your profile."
                      /\ loading' = FALSE
                      /\ CoachEnd
                      /\ UNCHANGED coachTeamId
                 ELSE /\ coachTeamId' = p.team_id
                      /\ profile' = p
                      /\ pc' = "team"
                      /\ UNCHANGED <<error, loading>>
    /\ UNCHANGED <<page, now, dbVars, dashVars, playerTeam, teamName, slotVars, schedules,
                   uiVars>>

CoachGetProfile ==
    /\ page = "coach" /\ pc = "profile"
    /\ \E ok \in BOOLEAN :
         LET p == IF ok THEN SingleProfile(authUser) ELSE NoRow
         IN  IF p.id = Null \/ p.role # "coach"
               THEN /\ error' = "Access denied. Coach role required."
                    /\ loading' = FALSE
                    /\ CoachEnd
                    /\ UNCHANGED coachTeamId
               ELSE IF p.team_id = Null
                 THEN /\ error' = "No team assigned to your profile."
                      /\ loading' = FALSE
                      /\ CoachEnd
                      /\ UNCHANGED coachTeamId
                 ELSE /\ coachTeamId' = p.team_id
                      /\ profile' = p
                      /\ pc' = "team"
                      /\ UNCHANGED <<error, loading>>
    /\ UNCHANGED <<page, now, dbVars, dashVars, playerTeam, teamName, slotVars, schedules,
                   uiVars>>

\* .from('teams').select('name').eq('id', profile.team_id).single()
CoachGetTeam ==
    /\ page = "coach" /\ pc = "team"
    /\ \E ok \in BOOLEAN :
         LET found == IF ok THEN { t \in teams : t.id = profile.team_id } ELSE {}
         IN  teamName' = IF found = {} THEN teamName
                         ELSE (CHOOSE t \in found : TRUE).name
    /\ pc' = "practiceQ"
    /\ UNCHANGED <<page, now, dbVars, dashVars, profile, playerTeam, coachTeamId,
                   slotVars, schedules, loading, error, uiVars>>

\* practiceError is thrown: catch { setError } finally { setLoading(false) }
CoachPracticeDone ==
    /\ page = "coach" /\ pc = "practiceQ"
    /\ practiceRes' \in QueryResults(EqTeam(practice_schedules, profile.team_id))
    /\ IF practiceRes'.error
         THEN /\ error' = "Failed to load schedules."
              /\ loading' = FALSE
              /\ CoachEnd
         ELSE /\ pc' = "meetingQ"
              /\ UNCHANGED <<error, loading, profile>>
    /\ UNCHANGED <<page, now, dbVars, dashVars, playerTeam, coachTeamId, teamName,
                   meetingRes, gameRes, schedules, uiVars>>

\* meetingError is only logged
CoachMeetingDone ==
    /\ page = "coach" /\ pc = "meetingQ"
    /\ meetingRes' \in QueryResults(EqTeam(meeting_schedules, profile.team_id))
    /\ pc' = "gameQ"
    /\ UNCHANGED <<page, now, dbVars, dashVars, profile, playerTeam, coachTeamId, teamName,
                   practiceRes, gameRes, schedules, loading, error, uiVars>>

\* a game query whose error is thrown as the practice error is
CoachGameDoneThrows ==
    /\ page = "coach" /\ pc = "gameQ"
    /\ gameRes' \in QueryResults(EqTeam(game_schedules, profile.team_id))
    /\ IF gameRes'.error
         THEN error' = "Failed to load schedules." /\ UNCHANGED schedules
         ELSE /\ schedules' = SortByStart(CoachCombine(practiceRes, meetingRes, gameRes'))
              /\ UNCHANGED error
    /\ loading' = FALSE
    /\ CoachEnd
    /\ UNCHANGED <<page, now, dbVars, dashVars, playerTeam, coachTeamId, teamName,
                   practiceRes, meetingRes, uiVars>>

\* gameError is only logged; then combine, sort, setSchedules, finally
CoachGameDone ==
    /\ page = "coach" /\ pc = "gameQ"
    /\ gameRes' \in QueryResults(EqTeam(game_schedules, profile.team_id))
    /\ schedules' = SortByStart(CoachCombine(practiceRes, meetingRes, gameRes'))
    /\ loading' = FALSE
    /\ CoachEnd
    /\ UNCHANGED <<page, now, dbVars, dashVars, playerTeam, coachTeamId, teamName,
                   practiceRes, meetingRes, error, uiVars>>

----------------------------------------------------------------------------
(* Type filter and search of the player and coach pages *)

FilterTypes == {"all", "practice", "meeting", "game"}
SearchTerms == { <<>>, <<"P", "a">>, <<"b">> }

LowerChar(c) == IF c = "A" THEN "a" ELSE IF c = "B" THEN "b"
                ELSE IF c = "P" THEN "p" ELSE c

\* String.prototype.toLowerCase
ToLowerCase(str) == [i \in 1..Len(str) |-> LowerChar(str[i])]

\* String.prototype.includes
Includes(str, sub) ==
    \E k \in 0..(Len(str) - Len(sub)) :
        \A i \in 1..Len(sub) : str[k + i] = sub[i]

\* s?.toLowerCase().includes(searchLower) || false
OptIncludes(str, searchLower) ==
    IF str = NullStr THEN FALSE ELSE Includes(ToLowerCase(str), searchLower)

\* a filter that compares the table name with the selected type
PlayerKeepsBySourceTable(schedule, f) ==
    IF f = "all" THEN TRUE ELSE schedule.source_table = f

\* player page: the callback of schedules.filter(...)
PlayerKeeps(schedule, f) ==
    IF f = "all" THEN TRUE ELSE schedule.type = f

\* a filter by removal in place: the element after a removed one is not tested
RECURSIVE PlayerFilteredSplicing(_, _)
PlayerFilteredSplicing(list, f) ==
    IF list = <<>> THEN <<>>
    ELSE IF PlayerKeeps(Head(list), f)
      THEN <<Head(list)>> \o PlayerFilteredSplicing(Tail(list), f)
      ELSE IF Len(list) = 1 THEN <<>>
           ELSE <<list[2]>> \o PlayerFilteredSplicing(SubSeq(list, 3, Len(list)), f)

\* player page: filteredSchedules
PlayerFiltered(list, f) ==
    LET Keep(schedule) == PlayerKeeps(schedule, f) IN SelectSeq(list, Keep)

\* coach page: schedules.filter(...), type filter then search filter
CoachKeeps(schedule, f, term) ==
    IF f # "all" /\ schedule.type # f THEN FALSE
    ELSE IF term # <<>>
      THEN LET searchLower == ToLowerCase(term)
           IN  \/ Includes(ToLowerCase(schedule.title), searchLower)
               \/ OptIncludes(schedule.description, searchLower)
               \/ OptIncludes(schedule.location, searchLower)
      ELSE TRUE

CoachFiltered(list, f, term) ==
    LET Keep(schedule) == CoachKeeps(schedule, f, term) IN SelectSeq(list, Keep)

\* the filter controls are rendered once loading is false and error is null
SetActiveFilter ==
    /\ page = "player" /\ ~loading /\ error = NoError
    /\ \E f \in FilterTypes : f # activeFilter /\ activeFilter' = f
    /\ UNCHANGED <<page, pc, now, dbVars, dashVars, profile, playerTeam, coachTeamId, teamName,
                   slotVars, schedules, loading, error,
                   searchTerm, filterTeam, filteredSchedules, filterNow>>

SetFilter ==
    /\ page = "coach" /\ ~loading /\ error = NoError
    /\ \E f \in FilterTypes : f # activeFilter /\ activeFilter' = f
    /\ UNCHANGED <<page, pc, now, dbVars, dashVars, profile, playerTeam, coachTeamId, teamName,
                   slotVars, schedules, loading, error,
                   searchTerm, filterTeam, filteredSchedules, filterNow>>

SetSearchTerm ==
    /\ page = "coach" /\ ~loading /\ error = NoError
    /\ \E t \in SearchTerms : t # searchTerm /\ searchTerm' = t
    /\ UNCHANGED <<page, pc, now, dbVars, dashVars, profile, playerTeam, coachTeamId, teamName,
                   slotVars, schedules, loading, error,
                   activeFilter, filterTeam, filteredSchedules, filterNow>>

----------------------------------------------------------------------------
(* Classification by time.  Player schedules page: isUpcoming at render *)

\* isUpcoming(timestamp), with `new Date()` read as t
IsUpcoming(timestamp, t) == DateGetTime(timestamp) > t

\* the cards rendered with upcoming = true, and those rendered with false
PlayerUpcoming(list, t) ==
    LET Up(schedule) == IsUpcoming(schedule.start_time, t) IN SelectSeq(list, Up)

PlayerPast(list, t) ==
    LET Down(schedule) == ~IsUpcoming(schedule.start_time, t) IN SelectSeq(list, Down)

Tick ==
    /\ now < MaxTime + 1
    /\ now' = now + 1
    /\ UNCHANGED <<page, pc, dbVars, dashVars, profile, playerTeam, coachTeamId, teamName,
                   slotVars, schedules, loading, error, uiVars>>

----------------------------------------------------------------------------
(* Admin schedules page: fetchData, filterSchedules, getTeamStats *)

TimeFilters == {"all", "upcoming", "past"}
AdminSearchTerms == { <<>>, <<"B">> }

\* a game of the admin list: any pairing of the teams, by id
AdminGameRow(i, a) ==
    [id |-> i,
     team1_id |-> IF i % 3 = 1 THEN 1 ELSE IF i % 3 = 2 THEN 2 ELSE Null,
     team2_id |-> IF i % 3 = 1 THEN 2 ELSE IF i % 3 = 2 THEN Null ELSE Null,
     title |-> <<"g", Letter(i)>>, description |-> NullStr,
     location |-> NullStr, start_time |-> a.start_time, end_time |-> Null,
     schedule_type |-> "game"]

\* team1:teams!schedules_team1_id_fkey(id, name, sport_type)
JoinTeam(id) ==
    IF \E t \in teams : t.id = id THEN CHOOSE t \in teams : t.id = id ELSE NoRow

\* a row of the joined select
AdminRow(r) ==
    Spread(r, [team1 |-> JoinTeam(r.team1_id), team2 |-> JoinTeam(r.team2_id),
               created_by_user |-> NoRow])

\* a row of the fallback select, mapped to null team data
AdminBasicRow(r) ==
    Spread(r, [team1 |-> NoRow, team2 |-> NoRow, team1_id |-> Null,
               team2_id |-> Null, created_by_user |-> NoRow])

\* schedule.team1?.name?.toLowerCase().includes(searchLower)
TeamNameIncludes(team, searchLower) ==
    IF team.id = Null THEN FALSE ELSE Includes(ToLowerCase(team.name), searchLower)

AdminSearchKeeps(schedule, term) ==
    LET searchLower == ToLowerCase(term)
    IN  \/ OptIncludes(schedule.title, searchLower)
        \/ OptIncludes(schedule.location, searchLower)
        \/ OptIncludes(schedule.description, searchLower)
        \/ TeamNameIncludes(schedule.team1, searchLower)
        \/ TeamNameIncludes(schedule.team2, searchLower)

AdminTeamKeeps(schedule, team) ==
    schedule.team1_id = team \/ schedule.team2_id = team

\* a time filter whose 'past' branch takes the reference instant too
AdminFilterPastInclusive(list, term, team, type, t) ==
    LET BySearch(x) == AdminSearchKeeps(x, term)
        ByTeam(x) == AdminTeamKeeps(x, team)
        Upcoming(x) == DateGetTime(x.start_time) >= t
        Past(x) == DateGetTime(x.start_time) <= t
        f1 == IF term # <<>> THEN SelectSeq(list, BySearch) ELSE list
        f2 == IF team # 0 THEN SelectSeq(f1, ByTeam) ELSE f1
    IN  IF type = "upcoming" THEN SelectSeq(f2, Upcoming)
        ELSE IF type = "past" THEN SelectSeq(f2, Past)
        ELSE f2

\* filterSchedules: the value it passes to setFilteredSchedules, `now` being t
AdminFilter(list, term, team, type, t) ==
    LET BySearch(x) == AdminSearchKeeps(x, term)
        ByTeam(x) == AdminTeamKeeps(x, team)
        Upcoming(x) == DateGetTime(x.start_time) >= t
        Past(x) == DateGetTime(x.start_time) < t
        f1 == IF term # <<>> THEN SelectSeq(list, BySearch) ELSE list
        f2 == IF team # 0 THEN SelectSeq(f1, ByTeam) ELSE f1
    IN  IF type = "upcoming" THEN SelectSeq(f2, Upcoming)
        ELSE IF type = "past" THEN SelectSeq(f2, Past)
        ELSE f2

\* the effect on [schedules, searchTerm, filterTeam, filterType]
RunFilterSchedules ==
    /\ filteredSchedules' =
         AdminFilter(schedules', searchTerm', filterTeam', activeFilter', now)
    /\ filterNow' = now

NoStats == [total |-> 0, upcoming |-> 0, past |-> 0]

\* stats[teamName].total++, then upcoming++ or past++
Bump(stats, name, isUpcoming) ==
    LET old == IF name \in DOMAIN stats THEN stats[name] ELSE NoStats
        new == [total |-> old.total + 1,
                upcoming |-> old.upcoming + (IF isUpcoming THEN 1 ELSE 0),
                past |-> old.past + (IF isUpcoming THEN 0 ELSE 1)]
    IN  [n \in (DOMAIN stats) \cup {name} |-> IF n = name THEN new ELSE stats[n]]

\* getTeamStats: the forEach over schedules, `now` being t
RECURSIVE GetTeamStats(_, _)
GetTeamStats(list, t) ==
    IF list = <<>> THEN <<>>
    ELSE LET schedule == list[Len(list)]
             isUpcoming == DateGetTime(schedule.start_time) > t
             s0 == GetTeamStats(SubSeq(list, 1, Len(list) - 1), t)
             s1 == IF schedule.team1.id # Null
                     THEN Bump(s0, schedule.team1.name, isUpcoming) ELSE s0
         IN  IF schedule.team2.id # Null
               THEN Bump(s1, schedule.team2.name, isUpcoming) ELSE s1

\* the catch block, then finally { setLoading(false) }
AdminFail ==
    /\ error' = "Error"
    /\ loading' = FALSE
    /\ pc' = "done"
    /\ UNCHANGED <<schedules, filteredSchedules, filterNow>>

\* mount: fetchData starts, and the filter effect runs on the empty list
AdminLoadStart ==
    /\ page = "admin" /\ pc = "mount"
    /\ loading' = TRUE
    /\ pc' = "teams"
    /\ UNCHANGED <<schedules, activeFilter, searchTerm, filterTeam>>
    /\ RunFilterSchedules
    /\ UNCHANGED <<page, now, dbVars, dashVars, profile, playerTeam, coachTeamId, teamName,
                   slotVars, error>>

AdminTeamsDone ==
    /\ page = "admin" /\ pc = "teams"
    /\ \E ok \in BOOLEAN :
         IF ok THEN /\ pc' = "schedulesQ"
                    /\ UNCHANGED <<error, loading, schedules, filteredSchedules,
                                   filterNow>>
               ELSE AdminFail
    /\ UNCHANGED <<page, now, dbVars, dashVars, profile, playerTeam, coachTeamId, teamName,
                   slotVars, activeFilter, searchTerm, filterTeam>>

AdminSchedulesDone ==
    /\ page = "admin" /\ pc = "schedulesQ"
    /\ UNCHANGED <<activeFilter, searchTerm, filterTeam>>
    /\ \E outcome \in {"ok", "missing team columns", "error"} :
         IF outcome = "ok"
           THEN /\ \E q \in OrderedBy(schedules_tbl) :
                     schedules' = [i \in 1..Len(q) |-> AdminRow(q[i])]
                /\ RunFilterSchedules
                /\ loading' = FALSE
                /\ pc' = "done"
                /\ UNCHANGED error
           ELSE IF outcome = "missing team columns"
             THEN /\ pc' = "basicQ"
                  /\ UNCHANGED <<error, loading, schedules, filteredSchedules,
                                 filterNow>>
             ELSE AdminFail
    /\ UNCHANGED <<page, now, dbVars, dashVars, profile, playerTeam, coachTeamId, teamName,
                   slotVars>>

AdminBasicDone ==
    /\ page = "admin" /\ pc = "basicQ"
    /\ UNCHANGED <<activeFilter, searchTerm, filterTeam>>
    /\ \E ok \in BOOLEAN :
         IF ok
           THEN /\ \E q \in OrderedBy(schedules_tbl) :
                     schedules' = [i \in 1..Len(q) |-> AdminBasicRow(q[i])]
                /\ RunFilterSchedules
                /\ error' = "Please add team1_id and team2_id columns"
                /\ loading' = FALSE
                /\ pc' = "done"
           ELSE AdminFail
    /\ UNCHANGED <<page, now, dbVars, dashVars, profile, playerTeam, coachTeamId, teamName,
                   slotVars>>

SetFilterType ==
    /\ page = "admin" /\ ~loading
    /\ \E f \in TimeFilters : f # activeFilter /\ activeFilter' = f
    /\ UNCHANGED <<schedules, searchTerm, filterTeam>>
    /\ RunFilterSchedules
    /\ UNCHANGED <<page, pc, now, dbVars, dashVars, profile, playerTeam, coachTeamId, teamName,
                   slotVars, loading, error>>

SetFilterTeam ==
    /\ page = "admin" /\ ~loading
    /\ \E t \in {0} \cup { x.id : x \in teams } : t # filterTeam /\ filterTeam' = t
    /\ UNCHANGED <<schedules, searchTerm, activeFilter>>
    /\ RunFilterSchedules
    /\ UNCHANGED <<page, pc, now, dbVars, dashVars, profile, playerTeam, coachTeamId, teamName,
                   slotVars, loading, error>>

AdminSetSearchTerm ==
    /\ page = "admin" /\ ~loading
    /\ \E t \in AdminSearchTerms : t # searchTerm /\ searchTerm' = t
    /\ UNCHANGED <<schedules, filterTeam, activeFilter>>
    /\ RunFilterSchedules
    /\ UNCHANGED <<page, pc, now, dbVars, dashVars, profile, playerTeam, coachTeamId, teamName,
                   slotVars, loading, error>>

----------------------------------------------------------------------------
(* Player dashboard: fetchPlayerData *)

\* { ...event, type: 'practice' } with the tag written first, so that a
\* column of the row named type replaces it
PDashEventRowWins(r, type) == Spread([type |-> type], r)

\* { ...event, type: 'practice' | 'meeting' | 'game' }
PDashEvent(r, type) == Spread(r, [type |-> type])

\* allEvents after the three forEach blocks; a null or empty data adds nothing
PDashCombine(p, m, g) ==
    [i \in 1..Len(p.data) |-> PDashEvent(p.data[i], "practice")]
    \o [i \in 1..Len(m.data) |-> PDashEvent(m.data[i], "meeting")]
    \o [i \in 1..Len(g.data) |-> PDashEvent(g.data[i], "game")]

\* a return or the end of the try block, then finally { setLoading(false) }
PDashFinish ==
    /\ loading' = FALSE
    /\ pc' = "done"

\* the effect calls fetchPlayerData, which awaits auth.getUser()
PDashGetUser ==
    /\ page = "pdash" /\ pc = "mount"
    /\ IF authFails \/ authUser = Null
         THEN PDashFinish
         ELSE pc' = "profile" /\ UNCHANGED loading
    /\ UNCHANGED <<page, now, dbVars, dashVars, profile, playerTeam, coachTeamId,
                   teamName, slotVars, schedules, error, uiVars>>

PDashGetProfile ==
    /\ page = "pdash" /\ pc = "profile"
    /\ \E ok \in BOOLEAN :
         LET playerProfile == IF ok THEN SingleProfile(authUser) ELSE NoRow
         IN  IF playerProfile.id = Null \/ playerProfile.team_id = Null
               THEN PDashFinish /\ UNCHANGED profile
               ELSE /\ profile' = playerProfile
                    /\ pc' = "team"
                    /\ UNCHANGED loading
    /\ UNCHANGED <<page, now, dbVars, dashVars, playerTeam, coachTeamId,
                   teamName, slotVars, schedules, error, uiVars>>

PDashGetTeam ==
    /\ page = "pdash" /\ pc = "team"
    /\ \E ok \in BOOLEAN :
         LET found == IF ok THEN { t \in teams : t.id = profile.team_id } ELSE {}
         IN  IF found = {}
               THEN PDashFinish /\ UNCHANGED playerTeam
               ELSE /\ playerTeam' = CHOOSE t \in found : TRUE
                    /\ pc' = "teammates"
                    /\ UNCHANGED loading
    /\ profile' = IF pc' = "done" THEN NoRow ELSE profile
    /\ UNCHANGED <<page, now, dbVars, dashVars, coachTeamId,
                   teamName, slotVars, schedules, error, uiVars>>

\* the teammates query, setTeammates, and the issue of the three schedule
\* queries with currentDate = new Date().toISOString()
PDashGetTeammates ==
    /\ page = "pdash" /\ pc = "teammates"
    /\ \E ok \in BOOLEAN :
         \E q \in IF ok THEN AnyOrder(TeamPlayers(playerTeam.id)) ELSE { <<>> } :
            LET Other(player) == player.user_id # authUser
            IN  teamPlayers' = SelectSeq(q, Other)
    /\ currentDate' = now
    /\ pc' = "queries"
    /\ UNCHANGED <<formVars, page, now, dbVars, announcements, userRole, playersResult,
                   announcementsResult, localTeam, profile, playerTeam, coachTeamId,
                   teamName, slotVars, schedules, loading, error, uiVars>>

PDashPracticeDone ==
    /\ page = "pdash" /\ pc = "queries" /\ ~practiceRes.done
    /\ practiceRes' \in LimitedResults(
         OrderedBy(GteStart(EqTeam(practice_schedules, playerTeam.id), currentDate)), 10)
    /\ UNCHANGED <<page, pc, now, dbVars, dashVars, profile, playerTeam, coachTeamId,
                   teamName, meetingRes, gameRes, schedules, loading, error, uiVars>>

PDashMeetingDone ==
    /\ page = "pdash" /\ pc = "queries" /\ ~meetingRes.done
    /\ meetingRes' \in LimitedResults(
         OrderedBy(GteStart(EqTeam(meeting_schedules, playerTeam.id), currentDate)), 10)
    /\ UNCHANGED <<page, pc, now, dbVars, dashVars, profile, playerTeam, coachTeamId,
                   teamName, practiceRes, gameRes, schedules, loading, error, uiVars>>

PDashGameDone ==
    /\ page = "pdash" /\ pc = "queries" /\ ~gameRes.done
    /\ gameRes' \in LimitedResults(
         OrderedBy(GteStart(OrTeams(schedules_tbl, playerTeam.id), currentDate)), 10)
    /\ UNCHANGED <<page, pc, now, dbVars, dashVars, profile, playerTeam, coachTeamId,
                   teamName, practiceRes, meetingRes, schedules, loading, error, uiVars>>

\* a join that goes on as soon as the practice and meeting queries have settled
PDashJoinEarly ==
    /\ page = "pdash" /\ pc = "queries"
    /\ practiceRes.done /\ meetingRes.done
    /\ schedules' = Limit(SortByStart(PDashCombine(practiceRes, meetingRes, gameRes)), 5)
    /\ pc' = "announcements"
    /\ profile' = NoRow
    /\ UNCHANGED <<page, now, dbVars, dashVars, playerTeam, coachTeamId,
                   teamName, slotVars, loading, error, uiVars>>

\* Promise.all has settled: combine, sort, slice(0, 5), setUpcomingEvents
PDashJoin ==
    /\ page = "pdash" /\ pc = "queries"
    /\ practiceRes.done /\ meetingRes.done /\ gameRes.done
    /\ schedules' = Limit(SortByStart(PDashCombine(practiceRes, meetingRes, gameRes)), 5)
    /\ pc' = "announcements"
    /\ profile' = NoRow
    /\ UNCHANGED <<page, now, dbVars, dashVars, playerTeam, coachTeamId,
                   teamName, slotVars, loading, error, uiVars>>

\* the announcements query, setAnnouncements(data || []), finally
PDashAnnouncementsDone ==
    /\ page = "pdash" /\ pc = "announcements"
    /\ \E r \in LimitedResults(NewestFirst(EqTeam(announcements_tbl, playerTeam.id)), 3) :
         announcements' = r.data
    /\ PDashFinish
    /\ UNCHANGED <<formVars, page, now, dbVars, currentDate, teamPlayers, userRole,
                   playersResult, announcementsResult, localTeam, profile, playerTeam,
                   coachTeamId, teamName, slotVars, schedules, error, uiVars>>

----------------------------------------------------------------------------
(* Coach dashboard: fetchCoachData and fetchTeamData *)

MyTeam == <<"M", "y", " ", "T", "e", "a", "m">>

\* the row of .insert({ name: 'Red Dragon', ... }).select('id, name').single()
NewTeamRow == [id |-> 3, name |-> <<"R", "e", "d">>]

\* the row of .insert({ user_id, email, role: 'coach', ..., team_id: teamId })
NewProfileRow(u, t) == [id |-> 8, user_id |-> u, role |-> "coach", team_id |-> t]

\* { ...practice, type: 'practice', schedule_type: 'practice', icon, color }
CDashPractice(r) ==
    Spread(r, [type |-> "practice", schedule_type |-> "practice",
               icon |-> "Target", color |-> "blue"])

\* { ...meeting, type: 'meeting', schedule_type: 'meeting', icon, color }
CDashMeeting(r) ==
    Spread(r, [type |-> "meeting", schedule_type |-> "meeting",
               icon |-> "Briefcase", color |-> "purple"])

\* allSchedules after the two forEach blocks
CDashCombine(p, m) ==
    (IF p.error THEN <<>> ELSE [i \in 1..Len(p.data) |-> CDashPractice(p.data[i])])
    \o (IF m.error THEN <<>> ELSE [i \in 1..Len(m.data) |-> CDashMeeting(m.data[i])])

\* setError(...); setLoading(false); return
CDashFail(message) ==
    /\ error' = message
    /\ loading' = FALSE
    /\ pc' = "done"

CDashLoadStart ==
    /\ page = "cdash" /\ pc = "mount"
    /\ loading' = TRUE
    /\ error' = NoError
    /\ pc' = "getUser"
    /\ UNCHANGED <<page, now, dbVars, dashVars, profile, playerTeam, coachTeamId,
                   teamName, slotVars, schedules, uiVars>>

CDashGetUser ==
    /\ page = "cdash" /\ pc = "getUser"
    /\ IF authFails \/ authUser = Null
         THEN /\ CDashFail("Please login to access the coach dashboard.")
              /\ page' = "login"
         ELSE /\ pc' = "profile"
              /\ UNCHANGED <<page, error, loading>>
    /\ UNCHANGED <<now, dbVars, dashVars, profile, playerTeam, coachTeamId,
                   teamName, slotVars, schedules, uiVars>>

\* the profile query.  data is null whenever the query reports an error, so
\* `profileError?.code === 'PGRST116' || !profile` takes every error, and the
\* missing row, to the branch that creates a coach profile
CDashGetProfile ==
    /\ page = "cdash" /\ pc = "profile"
    /\ \E ok \in BOOLEAN :
         LET p == IF ok THEN SingleProfile(authUser) ELSE NoRow
         IN  IF p.id = Null
               THEN /\ pc' = "availableTeams"
                    /\ UNCHANGED <<userRole, profile, error, loading>>
               ELSE /\ userRole' = p.role
                    /\ IF p.role # "coach" /\ p.role # "admin"
                         THEN /\ error' = "Access denied."
                              /\ loading' = FALSE
                              /\ pc' = "denied"
                              /\ profile' = p
                         ELSE IF p.team_id # Null
                           THEN /\ pc' = "team"
                                /\ profile' = p
                                /\ UNCHANGED <<error, loading>>
                           ELSE /\ CDashFail("No team assigned to your profile.")
                                /\ UNCHANGED profile
    /\ UNCHANGED <<formVars, page, now, dbVars, currentDate, teamPlayers, announcements,
                   playersResult, announcementsResult, localTeam, playerTeam,
                   coachTeamId, teamName, slotVars, schedules, uiVars>>

\* the callback of setTimeout(..., 3000): router.push to the page of the role
CDashRedirect ==
    /\ page = "cdash" /\ pc = "denied"
    /\ page' = "redirected"
    /\ pc' = "done"
    /\ profile' = NoRow
    /\ UNCHANGED <<now, dbVars, dashVars, playerTeam, coachTeamId, teamName,
                   slotVars, schedules, loading, error, uiVars>>

\* .from('teams').select('id, name').limit(2), then availableTeams[0]
CDashAvailableTeams ==
    /\ page = "cdash" /\ pc = "availableTeams"
    /\ \E r \in LimitedResults(AnyOrder(teams), 2) :
         IF r.error
           THEN /\ CDashFail("Cannot load teams. Please try again.")
                /\ UNCHANGED localTeam
           ELSE IF Len(r.data) > 0
             THEN /\ localTeam' = r.data[1]
                  /\ pc' = "insertProfile"
                  /\ UNCHANGED <<error, loading>>
             ELSE /\ pc' = "insertTeam"
                  /\ UNCHANGED <<localTeam, error, loading>>
    /\ UNCHANGED <<formVars, page, now, dbVars, currentDate, teamPlayers, announcements,
                   userRole, playersResult, announcementsResult, profile, playerTeam,
                   coachTeamId, teamName, slotVars, schedules, uiVars>>

\* .from('teams').insert({ name: 'Red Dragon', ... }).select('id, name').single()
CDashInsertTeam ==
    /\ page = "cdash" /\ pc = "insertTeam"
    /\ \E ok \in BOOLEAN :
         IF ok
           THEN /\ teams' = teams \cup {NewTeamRow}
                /\ localTeam' = NewTeamRow
                /\ pc' = "insertProfile"
                /\ UNCHANGED <<error, loading>>
           ELSE /\ CDashFail("Failed to create team. Please contact administrator.")
                /\ UNCHANGED <<teams, localTeam>>
    /\ UNCHANGED <<formVars, page, now, authUser, authFails, user_profiles, practice_schedules,
                   meeting_schedules, schedules_tbl, game_schedules, announcements_tbl,
                   currentDate, teamPlayers, announcements, userRole, playersResult,
                   announcementsResult, profile, playerTeam, coachTeamId, teamName,
                   slotVars, schedules, uiVars>>

\* .from('user_profiles').insert({ user_id, role: 'coach', team_id: teamId }),
\* setUserRole, setCoachTeam, and fetchTeamData(teamId) issues its queries
CDashInsertProfile ==
    /\ page = "cdash" /\ pc = "insertProfile"
    /\ \E ok \in BOOLEAN :
         IF ok
           THEN /\ user_profiles' =
                     user_profiles \cup {NewProfileRow(authUser, localTeam.id)}
                /\ userRole' = "coach"
                /\ coachTeamId' = localTeam.id
                /\ teamName' = localTeam.name
                /\ currentDate' = now
                /\ pc' = "queries"
                /\ UNCHANGED <<error, loading>>
           ELSE /\ CDashFail("Failed to create coach profile. Please try again.")
                /\ UNCHANGED <<user_profiles, userRole, coachTeamId, teamName,
                               currentDate>>
    /\ UNCHANGED <<formVars, page, now, authUser, authFails, teams, practice_schedules,
                   meeting_schedules, schedules_tbl, game_schedules, announcements_tbl,
                   teamPlayers, announcements, playersResult, announcementsResult,
                   localTeam, profile, playerTeam, slotVars, schedules, uiVars>>

\* .from('teams').select('name').eq('id', profile.team_id).single(),
\* setCoachTeam, and fetchTeamData(profile.team_id) issues its queries
CDashGetTeam ==
    /\ page = "cdash" /\ pc = "team"
    /\ \E ok \in BOOLEAN :
         LET found == IF ok THEN { t \in teams : t.id = profile.team_id } ELSE {}
         IN  teamName' = IF found = {} THEN MyTeam ELSE (CHOOSE t \in found : TRUE).name
    /\ coachTeamId' = profile.team_id
    /\ currentDate' = now
    /\ pc' = "queries"
    /\ profile' = NoRow
    /\ UNCHANGED <<formVars, page, now, dbVars, teamPlayers, announcements, userRole,
                   playersResult, announcementsResult, localTeam, playerTeam,
                   slotVars, schedules, loading, error, uiVars>>

CDashPlayersDone ==
    /\ page = "cdash" /\ pc = "queries" /\ ~playersResult.done
    /\ playersResult' \in ResultsOf(AnyOrder(TeamPlayers(coachTeamId)))
    /\ UNCHANGED <<formVars, page, pc, now, dbVars, currentDate, teamPlayers, announcements,
                   userRole, announcementsResult, localTeam, profile, playerTeam,
                   coachTeamId, teamName, slotVars, schedules, loading, error, uiVars>>

\* .or(`team_id.eq.${teamId},team_id.is.null`).order('created_at').limit(5)
CDashAnnouncementsDone ==
    /\ page = "cdash" /\ pc = "queries" /\ ~announcementsResult.done
    /\ announcementsResult' \in LimitedResults(
         NewestFirst(EqTeam(announcements_tbl, coachTeamId)
                     \cup EqTeam(announcements_tbl, Null)), 5)
    /\ UNCHANGED <<formVars, page, pc, now, dbVars, currentDate, teamPlayers, announcements,
                   userRole, playersResult, localTeam, profile, playerTeam,
                   coachTeamId, teamName, slotVars, schedules, loading, error, uiVars>>

CDashPracticeDone ==
    /\ page = "cdash" /\ pc = "queries" /\ ~practiceRes.done
    /\ practiceRes' \in LimitedResults(
         OrderedBy(GteStart(EqTeam(practice_schedules, coachTeamId), currentDate)), 3)
    /\ UNCHANGED <<page, pc, now, dbVars, dashVars, profile, playerTeam, coachTeamId,
                   teamName, meetingRes, gameRes, schedules, loading, error, uiVars>>

CDashMeetingDone ==
    /\ page = "cdash" /\ pc = "queries" /\ ~meetingRes.done
    /\ meetingRes' \in LimitedResults(
         OrderedBy(GteStart(EqTeam(meeting_schedules, coachTeamId), currentDate)), 3)
    /\ UNCHANGED <<page, pc, now, dbVars, dashVars, profile, playerTeam, coachTeamId,
                   teamName, practiceRes, gameRes, schedules, loading, error, uiVars>>

\* Promise.all has settled: setTeamPlayers, setAnnouncements, combine, sort,
\* slice(0, 5), setUpcomingSchedules, finally { setLoading(false) }
CDashJoin ==
    /\ page = "cdash" /\ pc = "queries"
    /\ playersResult.done /\ announcementsResult.done
    /\ practiceRes.done /\ meetingRes.done
    /\ teamPlayers' = IF playersResult.error THEN teamPlayers ELSE playersResult.data
    /\ announcements' =
         IF announcementsResult.error THEN announcements ELSE announcementsResult.data
    /\ schedules' = Limit(SortByStart(CDashCombine(practiceRes, meetingRes)), 5)
    /\ loading' = FALSE
    /\ pc' = "done"
    /\ UNCHANGED <<formVars, page, now, dbVars, currentDate, userRole, playersResult,
                   announcementsResult, localTeam, profile, playerTeam, coachTeamId,
                   teamName, slotVars, error, uiVars>>

----------------------------------------------------------------------------
(* Initial states and specifications *)

\* a freshly mounted page component
Mounted ==
    /\ pc = "mount"
    /\ profile = NoRow /\ playerTeam = NoRow /\ coachTeamId = Null
    /\ teamName = <<>>
    /\ practiceRes = Pending /\ meetingRes = Pending /\ gameRes = Pending
    /\ schedules = <<>> /\ loading = TRUE /\ error = NoError
    /\ activeFilter = "all" /\ searchTerm = <<>> /\ filterTeam = 0
    /\ filteredSchedules = <<>> /\ filterNow = Null
    /\ currentDate = Null /\ teamPlayers = <<>> /\ announcements = <<>>
    /\ userRole = "null"
    /\ playersResult = Pending /\ announcementsResult = Pending
    /\ localTeam = NoRow
    /\ previous = <<>> /\ reloads = 0
    /\ ops = {} /\ writes = {}
    /\ form = NoRow /\ request = NoRow /\ response = NoRow

\* a signed-in user of the given role on team 1; the team has at most maxRows
\* practices, meetings and games in all, and another team has rows too
InitSignedIn(role, maxRows, StartTimes) ==
    /\ authUser = 7 /\ authFails = FALSE
    /\ user_profiles = { ProfileRow(7, role, 1) }
    /\ teams = { TeamRow(i) : i \in Teams }
    /\ announcements_tbl = Announcements
    /\ \E np \in 0..maxRows : \E nm \in 0..(maxRows - np) :
       \E ng \in 0..(maxRows - np - nm) :
         /\ \E P \in PracticeTables(np, StartTimes) :
              practice_schedules = P \cup {OtherPractice}
         /\ \E M \in MeetingTables(nm, StartTimes) :
              meeting_schedules = M \cup {OtherMeeting}
         /\ IF role = "player"
              THEN /\ \E G \in GameTables(ng, StartTimes) :
                        schedules_tbl = G \cup {OtherGame}
                   /\ game_schedules = {}
              ELSE /\ \E G \in CoachGameTables(ng, StartTimes) :
                        game_schedules = G \cup {OtherCoachGame}
                   /\ schedules_tbl = {OtherGame, HomeGame}

\* any session and profile, over a small data set
InitAnySession ==
    /\ authUser \in {Null, 7} /\ authFails \in BOOLEAN
    /\ user_profiles \in
         {{}} \cup { { ProfileRow(7, r, t) } : r \in Roles, t \in {Null, 1} }
    /\ teams \in { {}, { TeamRow(1) } }
    /\ practice_schedules = { PracticeRow(1, [team_id |-> 1, start_time |-> 1]) }
    /\ meeting_schedules = {}
    /\ schedules_tbl = {}
    /\ game_schedules = {}
    /\ announcements_tbl = Announcements

\* the schedule pages over any rows, rows without a start time included
Init ==
    /\ Mounted
    /\ now = 1
    /\ page \in {"player", "coach"}
    /\ \/ page = "player" /\ InitSignedIn("player", MaxRows, Times \cup {Null})
       \/ page = "coach" /\ InitSignedIn("coach", MaxRows, Times \cup {Null})
       \/ InitAnySession

Next ==
    \/ PlayerLoadStart
    \/ PlayerGetUser
    \/ PlayerGetProfile
    \/ PlayerGetTeams
    \/ PlayerPracticeDone
    \/ PlayerMeetingDone
    \/ PlayerGameDone
    \/ PlayerJoin
    \/ CoachLoadStart
    \/ CoachGetUser
    \/ CoachGetProfile
    \/ CoachGetTeam
    \/ CoachPracticeDone
    \/ CoachMeetingDone
    \/ CoachGameDone

Spec == Init /\ [][Next]_vars

\* the schedule pages with their filter controls, over rows with start times
InitFilter ==
    /\ Mounted
    /\ now = 1
    /\ page \in {"player", "coach"}
    /\ \/ page = "player" /\ InitSignedIn("player", MaxRows, Times)
       \/ page = "coach" /\ InitSignedIn("coach", MaxRows, Times)

NextFilter ==
    \/ Next
    \/ SetActiveFilter
    \/ SetFilter
    \/ SetSearchTerm

SpecFilter == InitFilter /\ [][NextFilter]_vars

\* the admin page over any games
InitAdmin ==
    /\ authUser = 7 /\ authFails = FALSE
    /\ user_profiles = { ProfileRow(7, "admin", Null) }
    /\ teams = { TeamRow(i) : i \in Teams }
    /\ practice_schedules = {} /\ meeting_schedules = {} /\ game_schedules = {}
    /\ announcements_tbl = Announcements
    /\ \E n \in 0..MaxRows :
         \E f \in [1..n -> [start_time : Times \cup {Null}]] :
            schedules_tbl = { AdminGameRow(i, f[i]) : i \in 1..n }

\* the pages that classify events by time, under a running clock
InitTime ==
    /\ Mounted
    /\ now = 1
    /\ page \in {"player", "admin"}
    /\ \/ page = "player" /\ InitSignedIn("player", MaxRows - 1, Times \cup {Null})
       \/ page = "admin" /\ InitAdmin

NextTime ==
    \/ PlayerLoadStart
    \/ PlayerGetUser
    \/ PlayerGetProfile
    \/ PlayerGetTeams
    \/ PlayerPracticeDone
    \/ PlayerMeetingDone
    \/ PlayerGameDone
    \/ PlayerJoin
    \/ AdminLoadStart
    \/ AdminTeamsDone
    \/ AdminSchedulesDone
    \/ AdminBasicDone
    \/ SetFilterType
    \/ SetFilterTeam
    \/ AdminSetSearchTerm
    \/ Tick

SpecTime == InitTime /\ [][NextTime]_vars

\* the profiles of the dashboards: the user's own row, a teammate, a player
\* of another team
DashProfiles(own) ==
    own \cup { ProfileRow(6, "player", 1), ProfileRow(5, "player", 2) }

\* the tables behind a dashboard of team 1: at most maxRows practices, meetings
\* and (for the pages that read them) games in all, next to a practice that
\* carries a type column and to the rows of another team
InitDashData(maxRows, games, StartTimes) ==
    /\ authFails = FALSE
    /\ announcements_tbl = Announcements
    /\ game_schedules = {}
    /\ \E np \in 0..maxRows : \E nm \in 0..(maxRows - np) :
       \E ng \in 0..(IF games THEN maxRows - np - nm ELSE 0) :
         /\ \E P \in PracticeTables(np, StartTimes) :
              practice_schedules = P \cup {OtherPractice, TaggedPractice}
         /\ \E M \in MeetingTables(nm, StartTimes) :
              meeting_schedules = M \cup {OtherMeeting}
         /\ \E G \in GameTables(ng, StartTimes) :
              schedules_tbl = G \cup {OtherGame}

\* the four pages that fetch a team schedule, under a running clock
InitDash ==
    /\ Mounted
    /\ now = 1
    /\ page \in {"player", "coach", "pdash", "cdash"}
    /\ \/ /\ page \in {"player", "pdash"}
          /\ authUser = 7
          /\ user_profiles = DashProfiles({ ProfileRow(7, "player", 1) })
          /\ teams = { TeamRow(i) : i \in Teams }
          /\ InitDashData(MaxRows - 1, TRUE, Times \cup {Null})
       \/ page = "coach" /\ InitSignedIn("coach", MaxRows - 1, Times \cup {Null})
       \/ /\ page = "cdash"
          /\ authUser = 7
          /\ user_profiles = DashProfiles({ ProfileRow(7, "coach", 1) })
          /\ teams = { TeamRow(i) : i \in Teams }
          /\ InitDashData(MaxRows - 2, FALSE, Times \cup {Null})
       \/ /\ page \in {"pdash", "cdash"}
          /\ authUser \in {Null, 7}
          /\ user_profiles \in
               { DashProfiles(own) :
                   own \in { {}, { ProfileRow(7, "coach", Null) },
                             { ProfileRow(7, "player", 1) } } }
          /\ teams \in { {}, { TeamRow(i) : i \in Teams } }
          /\ InitDashData(0, FALSE, {1})

NextDash ==
    \/ Next
    \/ PDashGetUser
    \/ PDashGetProfile
    \/ PDashGetTeam
    \/ PDashGetTeammates
    \/ PDashPracticeDone
    \/ PDashMeetingDone
    \/ PDashGameDone
    \/ PDashJoin
    \/ PDashAnnouncementsDone
    \/ CDashLoadStart
    \/ CDashGetUser
    \/ CDashGetProfile
    \/ CDashRedirect
    \/ CDashAvailableTeams
    \/ CDashInsertTeam
    \/ CDashInsertProfile
    \/ CDashGetTeam
    \/ CDashPlayersDone
    \/ CDashAnnouncementsDone
    \/ CDashPracticeDone
    \/ CDashMeetingDone
    \/ CDashJoin
    \/ Tick

SpecDash == InitDash /\ [][NextDash]_vars

----------------------------------------------------------------------------
(* Properties of the team-schedule fetch *)

Slot(k) == IF k = 1 THEN practiceRes ELSE IF k = 2 THEN meetingRes ELSE gameRes
SourceType(k) == IF k = 1 THEN "practice" ELSE IF k = 2 THEN "meeting" ELSE "game"
Rank(type) == IF type = "practice" THEN 1 ELSE IF type = "meeting" THEN 2 ELSE 3

\* the load routine of a schedule page has ended after issuing source queries
Fetched == page \in {"player", "coach"} /\ pc = "done" /\ practiceRes.done

Failed == { k \in 1..3 : Slot(k).error }
Succeeded == { k \in 1..3 : Slot(k).done /\ ~Slot(k).error }

KeyOf(e) == IF e.start_time = Null THEN 0 ELSE e.start_time

NonDecreasing(list) ==
    \A i, j \in 1..Len(list) : i < j => KeyOf(list[i]) <= KeyOf(list[j])

RowsOf(k) == IF k \in Succeeded THEN Len(Slot(k).data) ELSE 0

\* list holds each row returned by the sources S once, tagged, and nothing else
MergedFrom(list, S) ==
    /\ Len(list) = (IF 1 \in S THEN RowsOf(1) ELSE 0)
                   + (IF 2 \in S THEN RowsOf(2) ELSE 0)
                   + (IF 3 \in S THEN RowsOf(3) ELSE 0)
    /\ \A k \in S : \A i \in 1..RowsOf(k) :
         Cardinality({ n \in 1..Len(list) :
             list[n].type = SourceType(k) /\ list[n].id = Slot(k).data[i].id }) = 1
    /\ NonDecreasing(list)

\* C1: the list a fetch produces is non-decreasing in start time (a null
\* start time counting as the epoch, as the comparator reads it)
C1_Ordered == page \in {"player", "coach"} => NonDecreasing(schedules)

\* C1 witness: a fetch whose sort had to move a practice behind a later-queried meeting
C1_Witness ==
    /\ Fetched /\ error = NoError
    /\ \E i, j \in 1..Len(schedules) :
         /\ i < j
         /\ schedules[i].type = "meeting" /\ schedules[j].type = "practice"
         /\ KeyOf(schedules[i]) < KeyOf(schedules[j])

C3_GameFailureAbsorbed ==
    (Fetched /\ Failed = {3} /\ {1, 2} \subseteq Succeeded)
        => /\ error = NoError
           /\ ~loading
           /\ MergedFrom(schedules, {1, 2})

\* C3 witness: the coach fetch lost its game query and shows a practice and a meeting
C3_Witness ==
    /\ Fetched /\ page = "coach" /\ Failed = {3}
    /\ \E i, j \in 1..Len(schedules) :
         schedules[i].type = "practice" /\ schedules[j].type = "meeting"

PosIn(k, id) == CHOOSE i \in 1..Len(Slot(k).data) : Slot(k).data[i].id = id

\* C5: events with the same start time appear in query order, Practice before
\* Meeting before Game, and within one source in the order it returned them
C5_Stable ==
    (Fetched /\ error = NoError)
        => \A i, j \in 1..Len(schedules) :
             (i < j /\ schedules[i].start_time = schedules[j].start_time)
                => \/ Rank(schedules[i].type) < Rank(schedules[j].type)
                   \/ /\ schedules[i].type = schedules[j].type
                      /\ PosIn(Rank(schedules[i].type), schedules[i].id)
                           < PosIn(Rank(schedules[j].type), schedules[j].id)

\* C5 witness: a practice, a meeting and a game, all at the same instant
C5_Witness ==
    /\ Fetched /\ error = NoError /\ Len(schedules) = 3
    /\ \A i \in 1..Len(schedules) : schedules[i].start_time = 1
    /\ schedules[1].type = "practice" /\ schedules[2].type = "meeting"
    /\ schedules[3].type = "game"

\* C6: no event of the list lacks a start time (a row without one is left out)
C6_MalformedRowsExcluded ==
    page \in {"player", "coach"}
        => \A i \in 1..Len(schedules) : schedules[i].start_time # Null

----------------------------------------------------------------------------
(* Properties of the type filter *)

Matches(e, T) == T = "all" \/ e.type = T

IndexOf(list, e) == CHOOSE i \in 1..Len(list) : list[i] = e

\* F is exactly the events of list whose source is T, in their order in list
ExactlyOfType(F, list, T) ==
    /\ \A i \in 1..Len(list) :
         Matches(list[i], T) => \E k \in 1..Len(F) : F[k] = list[i]
    /\ \A k \in 1..Len(F) :
         Matches(F[k], T) /\ \E i \in 1..Len(list) : list[i] = F[k]
    /\ \A k, l \in 1..Len(F) : k < l => IndexOf(list, F[k]) < IndexOf(list, F[l])
    /\ T = "all" => F = list

\* C7 (as stated): the filtered list is exactly the events of the selected
\* type in their original order, and the whole list for 'all'
C7_FilterExact ==
    /\ page = "player" =>
         ExactlyOfType(PlayerFiltered(schedules, activeFilter), schedules, activeFilter)
    /\ page = "coach" =>
         ExactlyOfType(CoachFiltered(schedules, activeFilter, searchTerm),
                       schedules, activeFilter)

\* C7 (amended): so it is on the player page, and on the coach page while the
\* search box is empty; with a search term the coach list is the events of the
\* selected type that also match the term, in their original order
C7_FilterExactUpToSearch ==
    /\ page = "player" =>
         ExactlyOfType(PlayerFiltered(schedules, activeFilter), schedules, activeFilter)
    /\ page = "coach" =>
         LET byType == CoachFiltered(schedules, activeFilter, <<>>)
         IN  /\ ExactlyOfType(byType, schedules, activeFilter)
             /\ CoachFiltered(schedules, activeFilter, searchTerm)
                  = CoachFiltered(byType, "all", searchTerm)
             /\ searchTerm = <<>> =>
                  CoachFiltered(schedules, activeFilter, searchTerm) = byType

\* C7 witness: the player list filtered to meetings, between other events
C7_Witness ==
    /\ page = "player" /\ pc = "done" /\ activeFilter = "meeting"
    /\ Len(schedules) >= 3
    /\ schedules[1].type # "meeting" /\ schedules[2].type = "meeting"
    /\ schedules[3].type # "meeting"

\* C8: filtering an already filtered list by the same type changes nothing
C8_FilterIdempotent ==
    \A T \in FilterTypes :
        /\ page = "player" =>
             PlayerFiltered(PlayerFiltered(schedules, T), T) = PlayerFiltered(schedules, T)
        /\ page = "coach" =>
             CoachFiltered(CoachFiltered(schedules, T, searchTerm), T, searchTerm)
                = CoachFiltered(schedules, T, searchTerm)

\* C8 witness: the player list filtered to practices drops the event in between
C8_Witness ==
    /\ page = "player" /\ pc = "done" /\ activeFilter = "practice"
    /\ Len(schedules) = 3
    /\ Len(PlayerFiltered(schedules, "practice")) = 2
    /\ schedules[1].type = "practice" /\ schedules[2].type # "practice"

----------------------------------------------------------------------------
(* Properties of the classification by time *)

\* U and P split A: each event of A is in one of them and not in both, and
\* each of them lists its events in the order they have in A
Splits(U, P, A) ==
    /\ Len(U) + Len(P) = Len(A)
    /\ \A i \in 1..Len(A) :
         (\E k \in 1..Len(U) : U[k] = A[i]) # (\E k \in 1..Len(P) : P[k] = A[i])
    /\ \A k \in 1..Len(U) : \E i \in 1..Len(A) : A[i] = U[k]
    /\ \A k \in 1..Len(P) : \E i \in 1..Len(A) : A[i] = P[k]
    /\ \A k, l \in 1..Len(U) : k < l => IndexOf(A, U[k]) < IndexOf(A, U[l])
    /\ \A k, l \in 1..Len(P) : k < l => IndexOf(A, P[k]) < IndexOf(A, P[l])

\* the sides (team1, team2) of the listed games played by the team of this name
SidesOf(list, name) ==
    { <<i, side>> \in (1..Len(list)) \X {1, 2} :
        LET team == IF side = 1 THEN list[i].team1 ELSE list[i].team2
        IN  team.id # Null /\ team.name = name }

AdminShown(type) == AdminFilter(schedules, searchTerm, filterTeam, type, filterNow)

\* C9: classifying by time splits the events into upcoming and past with none
\* lost, none in both and the order kept: the player cards, the admin time
\* filter (whose result is the list shown) and the admin per-team counters
C9_Partition ==
    /\ page = "player" =>
         LET shown == PlayerFiltered(schedules, activeFilter)
         IN  Splits(PlayerUpcoming(shown, now), PlayerPast(shown, now), shown)
    /\ (page = "admin" /\ filterNow # Null) =>
         /\ Splits(AdminShown("upcoming"), AdminShown("past"), AdminShown("all"))
         /\ filteredSchedules = AdminShown(activeFilter)
         /\ LET stats == GetTeamStats(schedules, now)
            IN  \A name \in DOMAIN stats :
                  /\ stats[name].upcoming + stats[name].past = stats[name].total
                  /\ stats[name].total = Cardinality(SidesOf(schedules, name))

\* C9 witness: the admin list filtered to past games while a game starts at
\* the very instant of the filter run and another one is left out
C9_Witness ==
    /\ page = "admin" /\ pc = "done" /\ activeFilter = "past"
    /\ filteredSchedules # <<>>
    /\ Len(filteredSchedules) < Len(schedules)
    /\ \E i \in 1..Len(schedules) : schedules[i].start_time = filterNow

\* C10: an event that starts exactly at the reference instant is past:
\* upcoming is start > reference and past is start <= reference, on the player
\* cards, in the admin time filter and in the admin per-team counters
C10_BoundaryIsPast ==
    /\ page = "player" =>
         \A i \in 1..Len(schedules) :
            IsUpcoming(schedules[i].start_time, now) <=> KeyOf(schedules[i]) > now
    /\ (page = "admin" /\ filterNow # Null) =>
         /\ \A i \in 1..Len(AdminShown("upcoming")) :
              KeyOf(AdminShown("upcoming")[i]) > filterNow
         /\ \A i \in 1..Len(AdminShown("past")) :
              KeyOf(AdminShown("past")[i]) <= filterNow
         /\ LET stats == GetTeamStats(schedules, now)
            IN  \A name \in DOMAIN stats :
                  stats[name].upcoming =
                    Cardinality({ x \in SidesOf(schedules, name) :
                                    KeyOf(schedules[x[1]]) > now })

----------------------------------------------------------------------------
(* Properties of the fetch on the four pages that show a team schedule *)

\* the team whose schedule the mounted page fetches
TeamId == IF page \in {"player", "pdash"} THEN playerTeam.id ELSE coachTeamId

\* the load routine has set the merged list
Published ==
    \/ page \in {"player", "coach", "cdash"} /\ pc = "done" /\ practiceRes.done
    \/ page = "pdash" /\ pc \in {"announcements", "done"} /\ practiceRes.done

\* the row a listed event was built from: the row of that id in the result of
\* the query of the event's source
RowOf(e) ==
    LET data == Slot(Rank(e.type)).data
    IN  data[CHOOSE j \in 1..Len(data) : data[j].id = e.id]

\* C11: on the player dashboard and the coach dashboard every listed event
\* has a start time, and it is not before the instant that was read as now
\* when the queries were issued
C11_UpcomingOnly ==
    page \in {"pdash", "cdash"}
        => \A i \in 1..Len(schedules) :
             /\ schedules[i].start_time # Null
             /\ schedules[i].start_time >= currentDate

\* C11 witness: a dashboard lists an event of the team and leaves out a
\* practice of the team that started before the queries were issued
C11_Witness ==
    /\ page \in {"pdash", "cdash"} /\ Published
    /\ schedules # <<>>
    /\ \E r \in EqTeam(practice_schedules, TeamId) :
         /\ r.start_time # Null /\ r.start_time < currentDate
         /\ \A i \in 1..Len(schedules) : schedules[i].id # r.id

\* the listed event is a game built from this row of the table schedules
IsGameOf(e, r) == e.type = "game" /\ e.id = r.id /\ RowOf(e) = r

\* C12: every listed event belongs to the team T of the fetch: a Practice or
\* Meeting event has team_id = T, a Game event is a row of the table schedules
\* with team1_id = T or team2_id = T, and every such row (on the dashboard:
\* every such row that is not before the instant of the fetch) is listed
C12_BelongsToTeam ==
    (page \in {"player", "coach", "pdash", "cdash"} /\ Published)
        => /\ \A i \in 1..Len(schedules) :
                LET r == RowOf(schedules[i])
                IN  IF schedules[i].type = "game"
                      THEN /\ r \in schedules_tbl
                           /\ r.team1_id = TeamId \/ r.team2_id = TeamId
                      ELSE r.team_id = TeamId
           /\ (page \in {"player", "coach"} /\ 3 \in Succeeded)
                => \A r \in OrTeams(schedules_tbl, TeamId) :
                     \E i \in 1..Len(schedules) : IsGameOf(schedules[i], r)
           /\ (page = "pdash" /\ 3 \in Succeeded)
                => \A r \in GteStart(OrTeams(schedules_tbl, TeamId), currentDate) :
                     \E i \in 1..Len(schedules) : IsGameOf(schedules[i], r)

\* C12 on the pages other than the coach schedules page
C12_BelongsExceptCoachPage == page # "coach" => C12_BelongsToTeam

\* the step sets the merged list, or leaves the wait for the source queries
Publishes == schedules' # schedules \/ (pc = "queries" /\ pc' # "queries")

\* C13: the merged list is set only when every source query of the invocation
\* has completed or failed.  On the pages that issue the queries together the
\* three (coach dashboard: four) results are all in before the step that sets
\* the list; on the coach schedules page, which awaits them in turn, the step
\* that sets the list is the one in which the last result comes in
C13_PublishedAfterAll ==
    [][ Publishes =>
          /\ page \in {"player", "pdash"} =>
                /\ practiceRes.done /\ meetingRes.done /\ gameRes.done
                /\ UNCHANGED slotVars
          /\ page = "cdash" =>
                /\ practiceRes.done /\ meetingRes.done
                /\ playersResult.done /\ announcementsResult.done
                /\ UNCHANGED <<slotVars, playersResult, announcementsResult>>
          /\ page = "coach" =>
                practiceRes'.done /\ meetingRes'.done /\ gameRes'.done ]_vars

\* C13 witness: the player dashboard has set its list from three finished
\* queries that each returned a row
C13_Witness ==
    /\ page = "pdash" /\ pc \in {"announcements", "done"}
    /\ practiceRes.done /\ meetingRes.done /\ gameRes.done
    /\ practiceRes.data # <<>> /\ meetingRes.data # <<>> /\ gameRes.data # <<>>
    /\ Len(schedules) = Len(practiceRes.data) + Len(meetingRes.data) + Len(gameRes.data)

\* the list the page builds from its result slots
ListOf(p, m, g) ==
    IF page = "player" THEN SortByStart(PlayerCombine(p, m, g, playerTeam.id))
    ELSE IF page = "pdash" THEN Limit(SortByStart(PDashCombine(p, m, g)), 5)
    ELSE Limit(SortByStart(CDashCombine(p, m)), 5)

\* the slots that differ between the two states of a step
Written ==
    { k \in 1..5 :
        IF k <= 3 THEN Slot(k)' # Slot(k)
        ELSE IF k = 4 THEN playersResult' # playersResult
        ELSE announcementsResult' # announcementsResult }

\* C14: while the source queries of one fetch are in flight, a step writes at
\* most one result slot, a slot that was still empty, with rows of that
\* query's own table; and the list that is set is a function of the contents
\* of the slots alone, so every order of completion gives the same list
C14_OrderIndependent ==
    [][ (page \in {"player", "pdash", "cdash"} /\ pc = "queries") =>
          /\ Cardinality(Written) <= 1
          /\ (practiceRes' # practiceRes) =>
                /\ ~practiceRes.done /\ practiceRes'.done
                /\ \A i \in 1..Len(practiceRes'.data) :
                     practiceRes'.data[i] \in EqTeam(practice_schedules, TeamId)
          /\ (meetingRes' # meetingRes) =>
                /\ ~meetingRes.done /\ meetingRes'.done
                /\ \A i \in 1..Len(meetingRes'.data) :
                     meetingRes'.data[i] \in EqTeam(meeting_schedules, TeamId)
          /\ (gameRes' # gameRes) =>
                /\ ~gameRes.done /\ gameRes'.done
                /\ \A i \in 1..Len(gameRes'.data) :
                     gameRes'.data[i] \in OrTeams(schedules_tbl, TeamId)
          /\ (pc' # "queries") =>
                /\ Written = {}
                /\ schedules' = ListOf(practiceRes, meetingRes, gameRes) ]_vars

\* C14 witness: the player schedules page has set its list from three
\* sources, the game that was queried last being listed first
C14_Witness ==
    /\ page = "player" /\ Published /\ Succeeded = {1, 2, 3}
    /\ practiceRes.data # <<>> /\ meetingRes.data # <<>> /\ gameRes.data # <<>>
    /\ schedules[1].type = "game"

\* C15: the list of a full fetch (the schedules pages) holds each row that a
\* successful source query returned exactly once, under its source's tag, and
\* nothing else
C15_NothingLostOrDuplicated ==
    Fetched
        => /\ MergedFrom(schedules, Succeeded)
           /\ \A n \in 1..Len(schedules) :
                \E k \in Succeeded : \E i \in 1..RowsOf(k) :
                   /\ schedules[n].type = SourceType(k)
                   /\ schedules[n].id = Slot(k).data[i].id
                   /\ schedules[n].title = Slot(k).data[i].title
                   /\ schedules[n].start_time = Slot(k).data[i].start_time

\* C15 witness: three listed events, of which a practice and a meeting have
\* the same id
C15_Witness ==
    /\ Fetched /\ Succeeded = {1, 2, 3} /\ Len(schedules) = 3
    /\ \E i, j \in 1..3 :
         /\ schedules[i].type = "practice" /\ schedules[j].type = "meeting"
         /\ schedules[i].id = schedules[j].id

\* the name of the table behind a source
TableName(k) ==
    IF k = 1 THEN "practice_schedules"
    ELSE IF k = 2 THEN "meeting_schedules" ELSE "schedules"

\* the listed event was built from a row that the query of source k returned
BuiltFrom(e, k) ==
    \E j \in 1..Len(Slot(k).data) :
        /\ Slot(k).data[j].id = e.id
        /\ Slot(k).data[j].title = e.title
        /\ Slot(k).data[j].start_time = e.start_time

\* C16: the tag of a listed event names the table its row was read from (on
\* the player schedules page the source_table field does so too), whatever
\* the row holds in columns called type or source_table
C16_TagIsTable ==
    (page \in {"player", "coach", "pdash", "cdash"} /\ Published)
        => \A i \in 1..Len(schedules) : \A k \in 1..3 :
             BuiltFrom(schedules[i], k)
                => /\ schedules[i].type = SourceType(k)
                   /\ page = "player" => schedules[i].source_table = TableName(k)

\* C16 witness: a listed practice whose row says type 'game' and source_table
\* 'schedules'
C16_Witness ==
    /\ page \in {"player", "pdash", "cdash"} /\ Published
    /\ \E i \in 1..Len(schedules) :
         /\ BuiltFrom(schedules[i], 1)
         /\ schedules[i].type = "practice"
         /\ \E j \in 1..Len(practiceRes.data) :
              /\ practiceRes.data[j].id = schedules[i].id
              /\ "type" \in DOMAIN practiceRes.data[j]
              /\ practiceRes.data[j].type = "game"

Written17(e) ==
    IF page = "player"
      THEN {"type", "source_table"} \cup (IF e.type = "game" THEN {"team_id"} ELSE {})
    ELSE IF page = "pdash" THEN {"type"}
    ELSE IF page = "cdash" THEN {"type", "schedule_type", "icon", "color"}
    ELSE {"type", "originalData"} \cup (IF e.type = "meeting" THEN {"subtype"} ELSE {})

C18_SubtypePassThrough ==
    (page \in {"player", "coach", "pdash", "cdash"} /\ Published)
        => \A i \in 1..Len(schedules) :
             LET e == schedules[i]
                 r == RowOf(e)
             IN  /\ e.type = "meeting" =>
                      IF page = "coach" THEN e.subtype = r.meeting_type
                      ELSE e.meeting_type = r.meeting_type
                 /\ e.type = "game" =>
                      IF "schedule_type" \in DOMAIN r
                        THEN /\ "subtype" \notin DOMAIN e
                             /\ e.schedule_type = r.schedule_type
                        ELSE /\ "subtype" \notin DOMAIN e
                             /\ "schedule_type" \notin DOMAIN e

\* C18 witness: the coach schedules page lists a meeting whose subtype is a
\* string outside the list of the meeting form
C18_Witness ==
    /\ page = "coach" /\ Published
    /\ \E i \in 1..Len(schedules) :
         schedules[i].type = "meeting" /\ schedules[i].subtype = "huddle"

\* C19 (as stated): a listed Practice has no sub-classification: neither a
\* subtype nor a schedule_type
C19_PracticeSubtypeUnset ==
    (page \in {"player", "coach", "pdash", "cdash"} /\ Published)
        => \A i \in 1..Len(schedules) :
             schedules[i].type = "practice"
                => /\ "subtype" \notin DOMAIN schedules[i]
                   /\ "schedule_type" \notin DOMAIN schedules[i]

\* C19 (amended): so it is on the two schedules pages and on the player
\* dashboard; on the coach dashboard every Practice has schedule_type
\* 'practice' (and no subtype field)
C19_PracticeSubtypeByPage ==
    (page \in {"player", "coach", "pdash", "cdash"} /\ Published)
        => \A i \in 1..Len(schedules) :
             schedules[i].type = "practice"
                => /\ "subtype" \notin DOMAIN schedules[i]
                   /\ IF page = "cdash"
                        THEN schedules[i].schedule_type = "practice"
                        ELSE "schedule_type" \notin DOMAIN schedules[i]

\* C19 witness: the coach dashboard lists a practice
C19_Witness ==
    /\ page = "cdash" /\ Published
    /\ \E i \in 1..Len(schedules) :
         schedules[i].type = "practice" /\ schedules[i].schedule_type = "practice"

\* C20: no step of a page that loads a team schedule changes a table
C20_ReadOnly ==
    [][UNCHANGED <<user_profiles, teams, practice_schedules, meeting_schedules,
                   schedules_tbl>>]_vars

\* C20 on the pages other than the coach dashboard
C20_ReadOnlyExceptCoachDashboard ==
    [][page # "cdash" => UNCHANGED dbVars]_vars

----------------------------------------------------------------------------
(* Invoking the load routine again, while other sessions change the tables *)

MaxReloads == 1

\* what the page renders of the list: the spinner while loading, the error
\* panel while an error is set, the list otherwise
Displayed ==
    IF loading \/ error # NoError THEN <<>> ELSE schedules

\* the Refresh and Try Again buttons of the player page: loadData once more
PlayerReload ==
    /\ page = "player" /\ pc = "done" /\ ~loading
    /\ reloads < MaxReloads
    /\ reloads' = reloads + 1
    /\ previous' = schedules
    /\ loading' = TRUE
    /\ error' = NoError
    /\ pc' = "getUser"
    /\ practiceRes' = Pending /\ meetingRes' = Pending /\ gameRes' = Pending
    /\ UNCHANGED <<page, now, dbVars, currentDate, teamPlayers, announcements,
                   userRole, playersResult, announcementsResult, localTeam,
                   ops, writes, form, request, response,
                   profile, playerTeam, coachTeamId, teamName, schedules, uiVars>>

\* the Try Again button of the coach page's error panel: fetchCoachData once more
CoachRetry ==
    /\ page = "coach" /\ pc = "done" /\ ~loading /\ error # NoError
    /\ reloads < MaxReloads
    /\ reloads' = reloads + 1
    /\ previous' = schedules
    /\ loading' = TRUE
    /\ error' = NoError
    /\ pc' = "getUser"
    /\ practiceRes' = Pending /\ meetingRes' = Pending /\ gameRes' = Pending
    /\ UNCHANGED <<page, now, dbVars, currentDate, teamPlayers, announcements,
                   userRole, playersResult, announcementsResult, localTeam,
                   ops, writes, form, request, response,
                   profile, playerTeam, coachTeamId, teamName, schedules, uiVars>>

\* the invocation of the load routine that starts next on the mounted page
NextInvocation == IF pc = "mount" THEN 1 ELSE reloads + 2

\* another session: the admin schedules page deletes a row of the table schedules
AdminDeleteSchedule ==
    /\ \A w \in writes : w.by # "admin-delete"
    /\ \E r \in schedules_tbl :
         /\ schedules_tbl' = schedules_tbl \ {r}
         /\ writes' = writes \cup
              {[by |-> "admin-delete", kind |-> "delete", table |-> "schedules",
                row |-> NoRow, hit |-> {r}, team |-> Null,
                at |-> NextInvocation]}
    /\ UNCHANGED <<page, pc, now, authUser, authFails, user_profiles, teams,
                   practice_schedules, meeting_schedules, game_schedules,
                   announcements_tbl, currentDate, teamPlayers, announcements,
                   userRole, playersResult, announcementsResult, localTeam,
                   previous, reloads, ops, form, request, response,
                   profile, playerTeam, coachTeamId,
                   teamName, slotVars, schedules, loading, error, uiVars>>

\* another session: the admin members page removes a user from their team
RemoveFromTeam ==
    /\ \E p \in user_profiles :
         /\ p.team_id # Null
         /\ user_profiles' = (user_profiles \ {p}) \cup {Spread(p, [team_id |-> Null])}
    /\ UNCHANGED <<page, pc, now, authUser, authFails, teams,
                   practice_schedules, meeting_schedules, schedules_tbl, game_schedules,
                   announcements_tbl, dashVars, profile, playerTeam, coachTeamId,
                   teamName, slotVars, schedules, loading, error, uiVars>>

\* the id the database gives the row that the game-creation form inserts
NewGameId == 5

\* the row the admin game-creation form inserts: the first team goes into the
\* column team_id, the second into team2_id; team1_id is not written
CreatedGame(team1Id, team2Id, startTime, endTime) ==
    [id |-> NewGameId,
     title |-> <<"t", Letter(team1Id), " ", "v", "s", " ", "t", Letter(team2Id)>>,
     description |-> <<"G", "a", "m", "e">>, schedule_type |-> "game",
     team_id |-> team1Id, team1_id |-> Null, team2_id |-> team2Id,
     start_time |-> startTime, end_time |-> endTime, location |-> <<>>]

\* the validation at the head of the game-creation form's handleSubmit
CreateGameValid(team1Id, team2Id, startTime, endTime) ==
    IF DateGetTime(startTime) >= DateGetTime(endTime)
      THEN "End time must be after start time"
    ELSE IF team1Id = Null \/ team2Id = Null THEN "Please select both teams"
    ELSE IF team1Id = team2Id THEN "Team 1 and Team 2 cannot be the same"
    ELSE NoError

\* another session: handleSubmit of the admin game-creation form, as far as
\* the tables see it: a submission that fails its validation, finds no
\* profile or is refused by the database writes nothing
AdminCreateGame ==
    /\ \A w \in writes : w.by # "create-game"
    /\ \E team1Id \in Teams \cup {Null}, team2Id \in Teams \cup {Null},
          startTime \in Times, endTime \in Times, ok \in BOOLEAN :
         LET invalid == CreateGameValid(team1Id, team2Id, startTime, endTime)
             row == CreatedGame(team1Id, team2Id, startTime, endTime)
         IN  IF invalid # NoError \/ ~ok
               THEN UNCHANGED <<schedules_tbl, writes>>
               ELSE /\ schedules_tbl' = schedules_tbl \cup {row}
                    /\ writes' = writes \cup
                         {[by |-> "create-game", kind |-> "insert",
                           table |-> "schedules", row |-> row, hit |-> {},
                           team |-> Null, at |-> NextInvocation]}
    /\ UNCHANGED <<page, pc, now, authUser, authFails, user_profiles, teams,
                   practice_schedules, meeting_schedules, game_schedules,
                   announcements_tbl, currentDate, teamPlayers, announcements,
                   userRole, playersResult, announcementsResult, localTeam,
                   previous, reloads, ops, form, request, response,
                   profile, playerTeam, coachTeamId, teamName, slotVars,
                   schedules, loading, error, uiVars>>

\* the schedule pages of a player of team 1 or team 2 and of a coach, loaded
\* again and again while other sessions change the tables
InitReload ==
    /\ Mounted
    /\ now = 1
    /\ page \in {"player", "coach"}
    /\ \/ /\ page = "player"
          /\ \E t \in Teams : user_profiles = { ProfileRow(7, "player", t) }
          /\ authUser = 7 /\ authFails = FALSE
          /\ teams = { TeamRow(i) : i \in Teams }
          /\ announcements_tbl = Announcements
          /\ \E P \in PracticeTables(MaxRows - 2, {1}) :
               practice_schedules = P \cup {OtherPractice}
          /\ meeting_schedules = {OtherMeeting}
          /\ \E G \in GameTables(MaxRows - 2, Times) : schedules_tbl = G \cup {OtherGame}
          /\ game_schedules = {}
       \/ page = "coach" /\ InitSignedIn("coach", MaxRows - 2, {1})

NextReload ==
    \/ Next
    \/ PlayerReload
    \/ CoachRetry
    \/ AdminDeleteSchedule
    \/ RemoveFromTeam

SpecReload == InitReload /\ [][NextReload]_vars

\* the load routine of the mounted page has completed and the list is shown
Shown == page \in {"player", "coach"} /\ pc = "done" /\ ~loading /\ error = NoError

\* the list the completed invocation builds from what it read
Rebuilt ==
    IF page = "player"
      THEN IF playerTeam.id = Null THEN <<>>
           ELSE SortByStart(PlayerCombine(practiceRes, meetingRes, gameRes, playerTeam.id))
      ELSE SortByStart(CoachCombine(practiceRes, meetingRes, gameRes))

\* the event was built from a row that a query of this invocation returned
ReadNow(e) ==
    \E k \in 1..3 :
        /\ Slot(k).done /\ ~Slot(k).error
        /\ SourceType(k) = e.type
        /\ BuiltFrom(e, k)

\* C21: when an invocation of loadData or fetchCoachData has completed, the
\* list the page shows is the one built from the rows that the queries of
\* that invocation returned: no event of an earlier invocation is retained
C21_FreshSnapshot ==
    Shown =>
        /\ Displayed = Rebuilt
        /\ \A i \in 1..Len(Displayed) : ReadNow(Displayed[i])

\* a second invocation completed and shows a list that lacks an event the
\* previous list had
C21_Witness ==
    /\ Shown /\ reloads >= 1
    /\ \E i \in 1..Len(previous) :
         \A j \in 1..Len(Displayed) :
             Displayed[j].id # previous[i].id \/ Displayed[j].type # previous[i].type

----------------------------------------------------------------------------
(* The forms and the detail page of the coach's session, and their writes *)

MaxWrites == 2

\* ids the database gives the rows the create forms insert
NewPracticeId == 6
NewMeetingId == 6

\* a row of the table schedules as the coach's detail and edit pages read it
ScheduleRow(i, type, teamId) ==
    [id |-> i, team_id |-> teamId, team1_id |-> Null, team2_id |-> Null,
     title |-> <<"s", Letter(i)>>, description |-> NullStr, location |-> NullStr,
     schedule_type |-> type, start_time |-> 1, end_time |-> Null]

\* the team the signed-in user's profile names at this instant
TeamNow ==
    LET p == SingleProfile(authUser)
    IN  IF p.id = Null THEN Null ELSE p.team_id

\* one entry of the history of writes: who issued it, what it wrote (row),
\* which rows it changed or removed (hit), and the writer's team at that instant
WriteRec(by, kind, table, row, hit) ==
    [by |-> by, kind |-> kind, table |-> table, row |-> row, hit |-> hit,
     team |-> TeamNow, at |-> NextInvocation]

\* a mounted form: its page, the position of its handler, the selected or
\* loaded row id, the team_id its handler read, the rows it loaded, whether
\* the loaded schedule may be edited, and the two time inputs
Form(by, at, id, team, list, editable) ==
    [by |-> by, pc |-> at, id |-> id, team |-> team, list |-> list,
     editable |-> editable, start_time |-> Null, end_time |-> Null,
     schedule_type |-> "null"]

CreateForms == {"create-practice", "create-meeting"}
EditForms == {"edit-practice", "edit-meeting"}

TableOf(by) ==
    IF by \in {"create-practice", "edit-practice"} THEN practice_schedules
    ELSE IF by \in {"create-meeting", "edit-meeting"} THEN meeting_schedules
    ELSE schedules_tbl

TableNameOf(by) ==
    IF by \in {"create-practice", "edit-practice"} THEN "practice_schedules"
    ELSE IF by \in {"create-meeting", "edit-meeting"} THEN "meeting_schedules"
    ELSE "schedules"

\* the tables after the form's table became T
SetTable(by, T) ==
    /\ practice_schedules' =
         IF by \in {"create-practice", "edit-practice"} THEN T ELSE practice_schedules
    /\ meeting_schedules' =
         IF by \in {"create-meeting", "edit-meeting"} THEN T ELSE meeting_schedules
    /\ schedules_tbl' =
         IF by \in {"edit-schedule", "detail"} THEN T ELSE schedules_tbl

\* what the form actions leave alone
FormFrame ==
    UNCHANGED <<page, pc, now, authUser, authFails, user_profiles, teams,
                game_schedules, announcements_tbl, currentDate, teamPlayers,
                announcements, userRole, playersResult, announcementsResult,
                localTeam, previous, reloads, ops, request, response,
                profile, playerTeam, coachTeamId, teamName, slotVars,
                schedules, loading, error, uiVars>>

NoWrite == UNCHANGED <<practice_schedules, meeting_schedules, schedules_tbl, writes>>

\* the user navigates to a create form; nothing is fetched on mount
OpenCreate ==
    /\ page = "forms" /\ form = NoRow /\ Cardinality(writes) < MaxWrites
    /\ \E by \in CreateForms :
         /\ \A r \in TableOf(by) : r.id # NewPracticeId
         /\ form' = Form(by, "idle", Null, Null, {}, FALSE)
    /\ NoWrite /\ FormFrame

\* fetchData of the edit-practice and edit-meeting pages
OpenEdit ==
    /\ page = "forms" /\ form = NoRow /\ Cardinality(writes) < MaxWrites
    /\ \E by \in EditForms, ok \in BOOLEAN :
         LET p == SingleProfile(authUser)
         IN  IF authUser = Null \/ p.id = Null
               THEN form' = NoRow
             ELSE IF p.team_id = Null
               THEN form' = NoRow
             ELSE form' = Form(by, "idle", Null, Null,
                               IF ok THEN EqTeam(TableOf(by), p.team_id) ELSE {},
                               FALSE)
    /\ NoWrite /\ FormFrame

\* handlePracticeSelect / handleMeetingSelect
SelectRow ==
    /\ form # NoRow /\ form.by \in EditForms /\ form.pc = "idle"
    /\ \E r \in form.list : form' = [form EXCEPT !.id = r.id]
    /\ NoWrite /\ FormFrame

\* handleSubmit of the four forms up to the profile read: the times typed
\* into the form go to the database as they are
SubmitRead ==
    /\ form # NoRow /\ form.by \in CreateForms \cup EditForms /\ form.pc = "idle"
    /\ \E startTime \in Times, endTime \in Times \cup {Null}, ok \in BOOLEAN :
         LET p == IF ok THEN SingleProfile(authUser) ELSE NoRow
         IN  IF authUser = Null
               THEN form' = NoRow
             ELSE IF p.id = Null
               THEN form' = form
             ELSE IF p.team_id = Null
               THEN form' = form
             ELSE IF form.by \in EditForms /\ form.id = Null
               THEN form' = form
             ELSE form' = [form EXCEPT !.pc = "write", !.team = p.team_id,
                                       !.start_time = startTime,
                                       !.end_time = endTime]
    /\ NoWrite /\ FormFrame

\* the row a create form inserts
InsertedRow(by, teamId, startTime, endTime) ==
    IF by = "create-practice"
      THEN Spread(PracticeRow(NewPracticeId, [team_id |-> teamId, start_time |-> startTime]),
                  [end_time |-> endTime])
      ELSE Spread(MeetingRow(NewMeetingId, [team_id |-> teamId, start_time |-> startTime]),
                  [end_time |-> endTime, meeting_type |-> "team_meeting"])

\* .update(values).eq('id', id).eq('team_id', teamId)
UpdateEq(T, id, teamId, values) ==
    { IF r.id = id /\ r.team_id = teamId THEN Spread(r, values) ELSE r : r \in T }

\* the insert of a create form, then router.push('/coach/schedules')
SubmitInsert ==
    /\ form # NoRow /\ form.by \in CreateForms /\ form.pc = "write"
    /\ \E ok \in BOOLEAN :
         LET row == InsertedRow(form.by, form.team, form.start_time, form.end_time)
         IN  IF ok
               THEN /\ SetTable(form.by, TableOf(form.by) \cup {row})
                    /\ writes' = writes \cup
                         {WriteRec(form.by, "insert", TableNameOf(form.by), row, {})}
                    /\ form' = NoRow
               ELSE /\ NoWrite
                    /\ form' = [form EXCEPT !.pc = "idle"]
    /\ FormFrame

\* the update of an edit form, then router.push('/coach/schedules')
SubmitUpdate ==
    /\ form # NoRow /\ form.by \in EditForms /\ form.pc = "write"
    /\ \E ok \in BOOLEAN :
         LET values == [start_time |-> form.start_time, end_time |-> form.end_time]
             T == TableOf(form.by)
         IN  IF ok
               THEN /\ SetTable(form.by, UpdateEq(T, form.id, form.team, values))
                    /\ writes' = writes \cup
                         {WriteRec(form.by, "update", TableNameOf(form.by), values,
                                   { r \in T : r.id = form.id /\ r.team_id = form.team })}
                    /\ form' = NoRow
               ELSE /\ NoWrite
                    /\ form' = [form EXCEPT !.pc = "idle"]
    /\ FormFrame

\* the user leaves the form or the detail page
CloseForm ==
    /\ form # NoRow /\ form.pc \in {"idle", "error"}
    /\ form' = NoRow
    /\ NoWrite /\ FormFrame

\* .eq('id', scheduleId).single() on the table schedules
SingleSchedule(id) ==
    LET M == { r \in schedules_tbl : r.id = id }
    IN  IF Cardinality(M) = 1 THEN (CHOOSE r \in M : TRUE) ELSE NoRow

\* ids a coach may put into the address of the detail or edit page
ScheduleIds == {1, 2, NewGameId, 9}

\* an edit page that shows its form for a game as well
OpenEditScheduleForGames ==
    /\ page = "forms" /\ form = NoRow /\ Cardinality(writes) < MaxWrites
    /\ \E scheduleId \in ScheduleIds, ok \in BOOLEAN :
         LET p == SingleProfile(authUser)
             schedule == IF ok THEN SingleSchedule(scheduleId) ELSE NoRow
             shown == /\ p.id # Null
                      /\ schedule.id # Null
                      /\ schedule.team_id = p.team_id
         IN  IF authUser = Null
               THEN form' = NoRow
             ELSE IF shown
               THEN form' = [Form("edit-schedule", "idle", scheduleId, Null,
                                  {schedule}, TRUE)
                               EXCEPT !.schedule_type = schedule.schedule_type]
             ELSE form' = Form("edit-schedule", "error", scheduleId, Null, {}, FALSE)
    /\ NoWrite /\ FormFrame

\* fetchScheduleData of the edit page: the form is shown for a schedule of
\* the coach's team that is not a game, an error panel otherwise
OpenEditSchedule ==
    /\ page = "forms" /\ form = NoRow /\ Cardinality(writes) < MaxWrites
    /\ \E scheduleId \in ScheduleIds, ok \in BOOLEAN :
         LET p == SingleProfile(authUser)
             schedule == IF ok THEN SingleSchedule(scheduleId) ELSE NoRow
             shown == /\ p.id # Null
                      /\ schedule.id # Null
                      /\ schedule.team_id = p.team_id
                      /\ schedule.schedule_type # "game"
         IN  IF authUser = Null
               THEN form' = NoRow
             ELSE IF shown
               THEN form' = [Form("edit-schedule", "idle", scheduleId, Null,
                                  {schedule}, TRUE)
                               EXCEPT !.schedule_type = schedule.schedule_type]
             ELSE form' = Form("edit-schedule", "error", scheduleId, Null, {}, FALSE)
    /\ NoWrite /\ FormFrame

\* the options of the edit form's Event Type select
EditableTypes == {"practice", "meeting", "other"}
Durations == {0, 1}

\* handleSubmit of the edit page up to the profile read: the end time is the
\* start time plus the duration, which must be positive
EditScheduleRead ==
    /\ form # NoRow /\ form.by = "edit-schedule" /\ form.pc = "idle"
    /\ \E startTime \in Times, duration \in Durations, ok \in BOOLEAN,
          type \in EditableTypes \cup {form.schedule_type} :
         LET p == IF ok THEN SingleProfile(authUser) ELSE NoRow
         IN  IF duration <= 0
               THEN form' = [form EXCEPT !.pc = "error"]
             ELSE IF authUser = Null
               THEN form' = NoRow
             ELSE IF p.id = Null
               THEN form' = [form EXCEPT !.pc = "error"]
             ELSE form' = [form EXCEPT !.pc = "write", !.team = p.team_id,
                                       !.start_time = startTime,
                                       !.end_time = startTime + duration,
                                       !.schedule_type = type]
    /\ NoWrite /\ FormFrame

\* the update of the edit page, then router.push to the detail page
EditScheduleUpdate ==
    /\ form # NoRow /\ form.by = "edit-schedule" /\ form.pc = "write"
    /\ \E ok \in BOOLEAN :
         LET values == [schedule_type |-> form.schedule_type,
                        start_time |-> form.start_time, end_time |-> form.end_time]
         IN  IF ok
               THEN /\ SetTable("edit-schedule",
                                UpdateEq(schedules_tbl, form.id, form.team, values))
                    /\ writes' = writes \cup
                         {WriteRec("edit-schedule", "update", "schedules", values,
                                   { r \in schedules_tbl :
                                       r.id = form.id /\ r.team_id = form.team })}
                    /\ form' = NoRow
               ELSE /\ NoWrite
                    /\ form' = [form EXCEPT !.pc = "error"]
    /\ FormFrame

\* fetchScheduleData of the detail page: a schedule of the coach's team is
\* shown, and it is editable unless it is a game
OpenDetail ==
    /\ page = "forms" /\ form = NoRow /\ Cardinality(writes) < MaxWrites
    /\ \E scheduleId \in ScheduleIds, ok \in BOOLEAN :
         LET p == SingleProfile(authUser)
             schedule == IF ok THEN SingleSchedule(scheduleId) ELSE NoRow
             shown == /\ p.id # Null
                      /\ schedule.id # Null
                      /\ schedule.team_id = p.team_id
         IN  IF authUser = Null
               THEN form' = NoRow
             ELSE IF shown
               THEN form' = Form("detail", "idle", scheduleId, p.team_id, {schedule},
                                 schedule.schedule_type # "game")
             ELSE form' = Form("detail", "error", scheduleId, Null, {}, FALSE)
    /\ NoWrite /\ FormFrame

\* handleDeleteSchedule of the detail page: .delete().eq('id', schedule.id)
DetailDelete ==
    /\ form # NoRow /\ form.by = "detail" /\ form.pc = "idle"
    /\ \E ok \in BOOLEAN :
         IF ~form.editable \/ ~ok
           THEN /\ NoWrite
                /\ form' = form
           ELSE /\ SetTable("detail", { r \in schedules_tbl : r.id # form.id })
                /\ writes' = writes \cup
                     {WriteRec("detail", "delete", "schedules", NoRow,
                               { r \in schedules_tbl : r.id = form.id })}
                /\ form' = NoRow
    /\ FormFrame

\* the coach's session with its forms, the admin's game-creation form and the
\* admin's members page
InitForms ==
    /\ Mounted
    /\ now = 1
    /\ page = "forms"
    /\ authUser \in {7, Null} /\ authFails = FALSE
    /\ \E t \in Teams : user_profiles = { ProfileRow(7, "coach", t) }
    /\ teams = { TeamRow(i) : i \in Teams }
    /\ announcements_tbl = Announcements
    /\ \E P \in PracticeTables(MaxRows - 2, Times) :
         practice_schedules = P \cup {OtherPractice}
    /\ \E M \in MeetingTables(MaxRows - 2, {1}) :
         meeting_schedules = M \cup {OtherMeeting}
    /\ schedules_tbl = { ScheduleRow(1, "practice", 1), ScheduleRow(2, "game", 1),
                         ScheduleRow(9, "meeting", 2) }
    /\ game_schedules = {}

NextForms ==
    \/ OpenCreate
    \/ OpenEdit
    \/ SelectRow
    \/ SubmitRead
    \/ SubmitInsert
    \/ SubmitUpdate
    \/ CloseForm
    \/ OpenEditSchedule
    \/ EditScheduleRead
    \/ EditScheduleUpdate
    \/ OpenDetail
    \/ DetailDelete
    \/ RemoveFromTeam
    \/ AdminCreateGame

SpecForms == InitForms /\ [][NextForms]_vars

\* the writes the creation and edit forms issued
FormWrites == { w \in writes : w.kind \in {"insert", "update"} }

\* C22: every row written through the creation and edit forms has an end
\* time that is absent or not before its start time
C22_EndNotBeforeStart ==
    \A w \in FormWrites :
        w.row.end_time # Null => w.row.end_time >= w.row.start_time

\* what holds of the forms that check their times: the game-creation form
\* and the coach's edit page write an end time after the start time
C22_CheckedForms ==
    \A w \in FormWrites :
        w.by \in {"create-game", "edit-schedule"} =>
            w.row.end_time # Null /\ w.row.end_time > w.row.start_time

----------------------------------------------------------------------------
(* The player schedules page while the admin creates a game *)

InitGames ==
    /\ Mounted
    /\ now = 1
    /\ page = "player"
    /\ authUser = 7 /\ authFails = FALSE
    /\ \E t \in Teams : user_profiles = { ProfileRow(7, "player", t) }
    /\ teams = { TeamRow(i) : i \in Teams }
    /\ announcements_tbl = Announcements
    /\ \E P \in PracticeTables(MaxRows - 2, Times) :
         practice_schedules = P \cup {OtherPractice}
    /\ meeting_schedules = {OtherMeeting}
    /\ \E G \in GameTables(MaxRows - 2, Times) : schedules_tbl = G \cup {OtherGame}
    /\ game_schedules = {}

NextGames ==
    \/ PlayerLoadStart
    \/ PlayerGetUser
    \/ PlayerGetProfile
    \/ PlayerGetTeams
    \/ PlayerPracticeDone
    \/ PlayerMeetingDone
    \/ PlayerGameDone
    \/ PlayerJoin
    \/ PlayerReload
    \/ AdminCreateGame

SpecGames == InitGames /\ [][NextGames]_vars

\* a full fetch for the team has completed that started after the write w
FullFetchAfter(w, teamId) ==
    /\ page = "player" /\ pc = "done" /\ ~loading /\ error = NoError
    /\ playerTeam.id = teamId
    /\ \A k \in 1..3 : Slot(k).done /\ ~Slot(k).error
    /\ reloads + 1 >= w.at

\* the list holds the written row as a Game event
ListedAsGame(w) ==
    \E i \in 1..Len(schedules) :
        schedules[i].id = w.row.id /\ schedules[i].type = "game"

\* C23: once the game-creation form has inserted a game between two distinct
\* teams, every later full fetch of the player schedules page for either
\* team lists that game as a Game event
C23_CreatedGameListed ==
    \A w \in writes :
        w.by = "create-game" =>
            \A teamId \in {w.row.team_id, w.row.team2_id} :
                FullFetchAfter(w, teamId) => ListedAsGame(w)

\* what holds: the team chosen as Team 2 gets the game, the team chosen as
\* Team 1 never does
C23_SecondTeamOnly ==
    \A w \in writes :
        w.by = "create-game" =>
            /\ FullFetchAfter(w, w.row.team2_id) => ListedAsGame(w)
            /\ FullFetchAfter(w, w.row.team_id) => ~ListedAsGame(w)

----------------------------------------------------------------------------
(* The upcoming lists of the two dashboards over a team with many events *)

\* the coach's team has MaxRows + 1 practices and up to two meetings; the
\* player's team has up to MaxRows events in all
InitUpcoming ==
    /\ Mounted
    /\ now = 1
    /\ page \in {"cdash", "pdash"}
    /\ authUser = 7 /\ authFails = FALSE
    /\ teams = { TeamRow(i) : i \in Teams }
    /\ announcements_tbl = Announcements
    /\ game_schedules = {}
    /\ \/ /\ page = "cdash"
          /\ user_profiles = DashProfiles({ ProfileRow(7, "coach", 1) })
          /\ \E P \in PracticeTables(MaxRows + 1, Times) :
               practice_schedules = P \cup {OtherPractice}
          /\ \E nm \in 1..2 : \E M \in MeetingTables(nm, Times) :
               meeting_schedules = M \cup {OtherMeeting}
          /\ schedules_tbl = {OtherGame}
       \/ /\ page = "pdash"
          /\ user_profiles = DashProfiles({ ProfileRow(7, "player", 1) })
          /\ \E np \in 0..MaxRows : \E P \in PracticeTables(np, Times) :
               practice_schedules = P \cup {OtherPractice}
          /\ \E M \in MeetingTables(1, Times) :
               meeting_schedules = M \cup {OtherMeeting}
          /\ \E G \in GameTables(MaxRows - 1, Times) :
               schedules_tbl = G \cup {OtherGame}

NextUpcoming ==
    \/ PDashGetUser
    \/ PDashGetProfile
    \/ PDashGetTeam
    \/ PDashGetTeammates
    \/ PDashPracticeDone
    \/ PDashMeetingDone
    \/ PDashGameDone
    \/ PDashJoin
    \/ PDashAnnouncementsDone
    \/ CDashLoadStart
    \/ CDashGetUser
    \/ CDashGetProfile
    \/ CDashGetTeam
    \/ CDashPlayersDone
    \/ CDashAnnouncementsDone
    \/ CDashPracticeDone
    \/ CDashMeetingDone
    \/ CDashJoin

SpecUpcoming == InitUpcoming /\ [][NextUpcoming]_vars

\* the upcoming events of the team in the tables, as <<type, row>>
UpcomingEvents ==
    { <<"practice", r>> : r \in GteStart(EqTeam(practice_schedules, TeamId), currentDate) }
    \cup { <<"meeting", r>> : r \in GteStart(EqTeam(meeting_schedules, TeamId), currentDate) }
    \cup IF page = "pdash"
           THEN { <<"game", r>> : r \in GteStart(OrTeams(schedules_tbl, TeamId), currentDate) }
           ELSE {}

\* the dashboard has set its list and every schedule query succeeded
UpcomingShown ==
    /\ page \in {"cdash", "pdash"} /\ Published
    /\ ~practiceRes.error /\ ~meetingRes.error
    /\ page = "pdash" => ~gameRes.error

IsListed(u) ==
    \E i \in 1..Len(schedules) : schedules[i].type = u[1] /\ schedules[i].id = u[2].id

\* the list is the min(5, n) earliest of the n upcoming events
EarliestListed ==
    /\ Len(schedules) =
         IF Cardinality(UpcomingEvents) < 5 THEN Cardinality(UpcomingEvents) ELSE 5
    /\ \A u \in UpcomingEvents :
         IsListed(u) \/ \A i \in 1..Len(schedules) :
                            schedules[i].start_time <= u[2].start_time

\* C24: the upcoming list of a dashboard is the min(5, n) earliest of the n
\* upcoming events of the team; the limits of the source queries never put a
\* later event in the place of an earlier one
C24_GloballyEarliest == UpcomingShown => EarliestListed

\* what holds: the player dashboard, whose queries are limited to 10 rows
\* each, lists the earliest events
C24_PlayerDashboardEarliest == UpcomingShown /\ page = "pdash" => EarliestListed

----------------------------------------------------------------------------
(* Coach schedules page: handleDeleteSchedule and the refresh it awaits *)

MaxOps == 2

\* a running handleDeleteSchedule: its arguments, its position, and the
\* results its fetchAllSchedules has read so far
Op(id, type, at, p, m) == [id |-> id, type |-> type, pc |-> at, p |-> p, m |-> m]

\* what the delete handler leaves alone
OpFrame ==
    UNCHANGED <<page, pc, now, authUser, authFails, user_profiles, teams,
                schedules_tbl, game_schedules, announcements_tbl, currentDate,
                teamPlayers, announcements, userRole, playersResult,
                announcementsResult, localTeam, previous, reloads, form, request,
                response, profile, playerTeam, coachTeamId, teamName, slotVars,
                uiVars>>

\* the trash button of a listed schedule: a type other than practice and
\* meeting is refused before any request is made
DeleteStart ==
    /\ page = "coach" /\ pc = "done" /\ ~loading /\ error = NoError
    /\ Cardinality(ops) < MaxOps
    /\ \E i \in 1..Len(schedules) :
         LET e == schedules[i]
         IN  /\ \A o \in ops : o.id # e.id \/ o.type # e.type
             /\ IF e.type \in {"practice", "meeting"}
                  THEN ops' = ops \cup {Op(e.id, e.type, "delete", Pending, Pending)}
                  ELSE ops' = ops
    /\ UNCHANGED <<practice_schedules, meeting_schedules, writes, schedules,
                   loading, error>>
    /\ OpFrame

\* .delete().eq('id', scheduleId) has answered; on success the refresh starts
DeleteDone ==
    /\ \E o \in ops, ok \in BOOLEAN :
         /\ o.pc = "delete"
         /\ LET T == IF o.type = "practice" THEN practice_schedules
                     ELSE meeting_schedules
                gone == { r \in T : r.id = o.id }
            IN  IF ok
                  THEN /\ practice_schedules' =
                            IF o.type = "practice" THEN T \ gone ELSE practice_schedules
                       /\ meeting_schedules' =
                            IF o.type = "meeting" THEN T \ gone ELSE meeting_schedules
                       /\ writes' = writes \cup
                            {WriteRec("coach-list", "delete",
                                      IF o.type = "practice" THEN "practice_schedules"
                                      ELSE "meeting_schedules", NoRow, gone)}
                       /\ ops' = IF coachTeamId # Null
                                   THEN (ops \ {o}) \cup {[o EXCEPT !.pc = "practiceQ"]}
                                   ELSE ops \ {o}
                  ELSE /\ ops' = ops \ {o}
                       /\ UNCHANGED <<practice_schedules, meeting_schedules, writes>>
    /\ UNCHANGED <<schedules, loading, error>>
    /\ OpFrame

\* the practice query of the refresh; its error is thrown and caught
RefreshPractice ==
    /\ \E o \in ops :
         /\ o.pc = "practiceQ"
         /\ \E res \in QueryResults(EqTeam(practice_schedules, coachTeamId)) :
              IF res.error
                THEN /\ error' = "Failed to load schedules."
                     /\ loading' = FALSE
                     /\ ops' = ops \ {o}
                ELSE /\ ops' = (ops \ {o}) \cup {[o EXCEPT !.pc = "meetingQ", !.p = res]}
                     /\ UNCHANGED <<error, loading>>
    /\ UNCHANGED <<practice_schedules, meeting_schedules, writes, schedules>>
    /\ OpFrame

\* the meeting query of the refresh
RefreshMeeting ==
    /\ \E o \in ops :
         /\ o.pc = "meetingQ"
         /\ \E res \in QueryResults(EqTeam(meeting_schedules, coachTeamId)) :
              ops' = (ops \ {o}) \cup {[o EXCEPT !.pc = "gameQ", !.m = res]}
    /\ UNCHANGED <<practice_schedules, meeting_schedules, writes, schedules,
                   loading, error>>
    /\ OpFrame

\* the game query of the refresh, then combine, sort, setSchedules, finally
RefreshGame ==
    /\ \E o \in ops :
         /\ o.pc = "gameQ"
         /\ \E res \in QueryResults(EqTeam(game_schedules, coachTeamId)) :
              /\ schedules' = SortByStart(CoachCombine(o.p, o.m, res))
              /\ loading' = FALSE
              /\ ops' = ops \ {o}
    /\ UNCHANGED <<practice_schedules, meeting_schedules, writes, error>>
    /\ OpFrame

\* the coach schedules page of a coach whose team has practices, a meeting
\* and a game
InitDelete ==
    /\ Mounted
    /\ now = 1
    /\ page = "coach"
    /\ authUser = 7 /\ authFails = FALSE
    /\ user_profiles = { ProfileRow(7, "coach", 1) }
    /\ teams = { TeamRow(i) : i \in Teams }
    /\ announcements_tbl = Announcements
    /\ \E P \in PracticeTables(MaxRows - 1, {1}) :
         practice_schedules = P \cup {OtherPractice}
    /\ \E M \in MeetingTables(MaxRows - 2, Times) :
         meeting_schedules = M \cup {OtherMeeting}
    /\ \E G \in CoachGameTables(1, {1}) :
         game_schedules = G \cup {OtherCoachGame}
    /\ schedules_tbl = {OtherGame, HomeGame}

NextDelete ==
    \/ CoachLoadStart
    \/ CoachGetUser
    \/ CoachGetProfile
    \/ CoachGetTeam
    \/ CoachPracticeDone
    \/ CoachMeetingDone
    \/ CoachGameDone
    \/ DeleteStart
    \/ DeleteDone
    \/ RefreshPractice
    \/ RefreshMeeting
    \/ RefreshGame
    \/ RemoveFromTeam

SpecDelete == InitDelete /\ [][NextDelete]_vars

\* the list shows an event of the row's id, read from the row's table
ShowsRow(table, r) ==
    \E i \in 1..Len(Displayed) :
        /\ Displayed[i].id = r.id
        /\ Displayed[i].type = IF table = "practice_schedules" THEN "practice"
                               ELSE "meeting"

\* C25: on the coach schedules page, once every delete and every refresh has
\* completed, the list shows no schedule that was deleted: a refresh that
\* started earlier and finishes later does not bring a deleted schedule back
C25_NoDeletedShown ==
    (page = "coach" /\ pc = "done" /\ ops = {}) =>
        \A w \in writes :
            w.by = "coach-list" => \A r \in w.hit : ~ShowsRow(w.table, r)

\* what holds: after a single delete whose refresh completed, the deleted
\* schedule is not shown
C25_SingleDelete ==
    (page = "coach" /\ pc = "done" /\ ops = {} /\ Cardinality(writes) = 1) =>
        \A w \in writes :
            w.by = "coach-list" => \A r \in w.hit : ~ShowsRow(w.table, r)

----------------------------------------------------------------------------
(* The load routines run to their end: every awaited request is answered *)

\* the four pages under any session and profile, over a small data set
InitLive ==
    /\ Mounted
    /\ now = 1
    /\ page \in {"player", "coach", "pdash", "cdash"}
    /\ authUser \in {Null, 7} /\ authFails \in BOOLEAN
    /\ user_profiles \in
         { DashProfiles(own) :
             own \in {{}} \cup { { ProfileRow(7, r, t) } : r \in Roles, t \in {Null, 1} } }
    /\ teams \in { {}, { TeamRow(i) : i \in Teams } }
    /\ announcements_tbl = Announcements
    /\ \E P \in PracticeTables(MaxRows - 2, Times) :
         practice_schedules = P \cup {OtherPractice}
    /\ meeting_schedules = {OtherMeeting}
    /\ schedules_tbl = {OtherGame, HomeGame}
    /\ game_schedules = {OtherCoachGame}

NextLive ==
    \/ Next
    \/ PDashGetUser
    \/ PDashGetProfile
    \/ PDashGetTeam
    \/ PDashGetTeammates
    \/ PDashPracticeDone
    \/ PDashMeetingDone
    \/ PDashGameDone
    \/ PDashJoin
    \/ PDashAnnouncementsDone
    \/ CDashLoadStart
    \/ CDashGetUser
    \/ CDashGetProfile
    \/ CDashRedirect
    \/ CDashAvailableTeams
    \/ CDashInsertTeam
    \/ CDashInsertProfile
    \/ CDashGetTeam
    \/ CDashPlayersDone
    \/ CDashAnnouncementsDone
    \/ CDashPracticeDone
    \/ CDashMeetingDone
    \/ CDashJoin

\* a promise that is awaited settles, so a load routine that can take a step
\* takes one
SpecLive == InitLive /\ [][NextLive]_vars /\ WF_vars(NextLive)

\* C26: on the coach schedules page, the player schedules page and the two
\* dashboards, every load ends with the loading flag false and leaves it so
C26_LoadingEnds == <>[](~loading)

\* what holds: the flag ends false on every path but the one on which the
\* coach schedules page finds no user and sends the browser to /login
C26_LoadingEndsUnlessRedirected ==
    <>[](~loading \/ (page = "login" /\ schedules = <<>> /\ error = NoError))

----------------------------------------------------------------------------
(* The coach's session: the schedules list, or one of the forms, is mounted *)

InitCoach ==
    \/ InitForms
    \/ /\ Mounted
       /\ now = 1
       /\ page = "coach"
       /\ authUser = 7 /\ authFails = FALSE
       /\ user_profiles = { ProfileRow(7, "coach", 1) }
       /\ teams = { TeamRow(i) : i \in Teams }
       /\ announcements_tbl = Announcements
       /\ \E P \in PracticeTables(MaxRows - 2, {1}) :
            practice_schedules = P \cup {OtherPractice}
       /\ \E M \in MeetingTables(MaxRows - 2, {1}) :
            meeting_schedules = M \cup {OtherMeeting}
       /\ \E G \in CoachGameTables(1, {1}) :
            game_schedules = G \cup {OtherCoachGame}
       /\ schedules_tbl = { ScheduleRow(1, "practice", 1), ScheduleRow(2, "game", 1),
                            ScheduleRow(9, "meeting", 2) }

NextCoach ==
    \/ NextForms
    \/ CoachLoadStart
    \/ CoachGetUser
    \/ CoachGetProfile
    \/ CoachGetTeam
    \/ CoachPracticeDone
    \/ CoachMeetingDone
    \/ CoachGameDone
    \/ DeleteStart
    \/ DeleteDone
    \/ RefreshPractice
    \/ RefreshMeeting
    \/ RefreshGame

SpecCoach == InitCoach /\ [][NextCoach]_vars

\* the writes issued from the coach's pages
CoachWrites ==
    { w \in writes :
        w.by \in CreateForms \cup EditForms \cup {"edit-schedule", "detail", "coach-list"} }

\* a row of a table is a game
IsGame(table, r) ==
    \/ table = "game_schedules"
    \/ table = "schedules" /\ r.schedule_type = "game"

\* the games in the tables
Games ==
    { <<"schedules", r>> : r \in { x \in schedules_tbl : x.schedule_type = "game" } }
    \cup { <<"game_schedules", r>> : r \in game_schedules }

\* C27: no operation of the coach's pages changes or removes a game: the
\* list page starts a delete only for a practice or a meeting and sends it to
\* practice_schedules or meeting_schedules, the detail page deletes only a
\* schedule that it loaded as not being a game, and the edit page updates
\* no row whose schedule_type is game
C27_GamesUntouched ==
    /\ \A o \in ops : o.type \in {"practice", "meeting"}
    /\ \A w \in CoachWrites :
         /\ \A r \in w.hit : ~IsGame(w.table, r)
         /\ w.by = "coach-list" => w.table \in {"practice_schedules", "meeting_schedules"}
         /\ w.by = "detail" => \A r \in w.hit : r.schedule_type # "game"
    /\ form # NoRow /\ form.by = "edit-schedule" /\ form.pc \in {"idle", "write"} =>
         \A r \in form.list : r.schedule_type # "game"
    /\ form # NoRow /\ form.by = "detail" /\ form.editable =>
         \A r \in form.list : r.schedule_type # "game"

\* the coach has deleted a schedule and now has the detail page of a game
\* open, which offers no delete; the game is still in its table
C27_Witness ==
    /\ \E w \in CoachWrites : w.kind = "delete"
    /\ form # NoRow /\ form.by = "detail" /\ form.pc = "idle" /\ ~form.editable
    /\ \E r \in schedules_tbl : r.id = form.id /\ r.schedule_type = "game"

\* C28: every update and every delete issued from the coach's pages changes
\* or removes only rows whose team_id is the team the coach's profile names
\* at the instant of the write
C28_OwnTeamOnly ==
    \A w \in CoachWrites :
        w.kind \in {"update", "delete"} => \A r \in w.hit : r.team_id = w.team

----------------------------------------------------------------------------
(* Who gets to see a schedule list *)

\* the session has a user whose profile lets the mounted page load its list:
\* role player on the player page, role coach with a team on the coach page
Allowed ==
    LET p == SingleProfile(authUser)
    IN  /\ authUser # Null /\ ~authFails
        /\ p.id # Null
        /\ \/ page = "player" /\ p.role = "player"
           \/ page = "coach" /\ p.role = "coach" /\ p.team_id # Null

\* C29: the player schedules page sets a non-empty list only for a signed-in
\* user whose profile has the role player, the coach schedules page only for
\* one whose profile has the role coach and a team; in every other case the
\* load leaves the list empty and ends with an error or a redirect
C29_RoleGated ==
    /\ page \in {"player", "coach"} /\ schedules # <<>> => Allowed
    /\ page \in {"player", "coach"} /\ pc = "done" /\ ~Allowed =>
         schedules = <<>> /\ error # NoError
    /\ page = "login" =>
         /\ authFails \/ authUser = Null
         /\ schedules = <<>>

\* a player of team 1 has opened the coach schedules page: the load has ended
\* with an error and an empty list, although the team has a practice
C29_Witness ==
    /\ page = "coach" /\ pc = "done"
    /\ authUser # Null /\ SingleProfile(authUser).id # Null
    /\ SingleProfile(authUser).role = "player"
    /\ SingleProfile(authUser).team_id # Null
    /\ EqTeam(practice_schedules, SingleProfile(authUser).team_id) # {}
    /\ schedules = <<>> /\ error # NoError


----------------------------------------------------------------------------
(* The middleware *)

\* the paths a request may ask for: protected pages and pages below them,
\* the two auth pages, and paths that only resemble either
Pathnames ==
    { "/", "/dashboard", "/dashboard/stats", "/admin", "/admin/teams",
      "/administrator", "/coach", "/coach/schedules", "/player",
      "/player/schedules", "/player/a%20b", "/auth/signin", "/auth/signup",
      "/auth/signin/", "/auth/callback", "/Dashboard", "/about",
      "/teams/admin" }

\* the query strings a request may carry
Searches == { "", "?tab=1" }

\* a request: the session its cookies hold (Null for none) and whether
\* reading the session made the client write cookies (setAll)
Request(pathname, search, session, setAll) ==
    [ id |-> 1, pathname |-> pathname, search |-> search,
      session |-> session, setAll |-> setAll ]

Requests ==
    { Request(p, q, s, c) : p \in Pathnames, q \in Searches,
                            s \in {Null, 7}, c \in BOOLEAN }

\* String.prototype.startsWith
StartsWith(s, prefix) ==
    Len(s) >= Len(prefix) /\ SubSeq(s, 1, Len(prefix)) = prefix

protectedRoutes == << "/dashboard", "/admin", "/coach", "/player" >>

authRoutes == << "/auth/signin", "/auth/signup" >>

\* a mutilated check: the path must equal a protected route
isProtectedRouteExact(pathname) ==
    \E i \in DOMAIN protectedRoutes : pathname = protectedRoutes[i]

isProtectedRoute(pathname) ==
    \E i \in DOMAIN protectedRoutes : StartsWith(pathname, protectedRoutes[i])

isAuthRoute(pathname) ==
    \E i \in DOMAIN authRoutes : authRoutes[i] = pathname

\* how URLSearchParams writes one character of a value
EncodeChar(c) ==
    CASE c = "/" -> "%2F"
      [] c = "%" -> "%25"
      [] c = " " -> "+"
      [] OTHER   -> c

RECURSIVE EncodeValue(_)
EncodeValue(s) ==
    IF Len(s) = 0 THEN ""
    ELSE EncodeChar(SubSeq(s, 1, 1)) \o EncodeValue(SubSeq(s, 2, Len(s)))

\* how URLSearchParams reads a value back
RECURSIVE DecodeValue(_)
DecodeValue(s) ==
    IF Len(s) = 0 THEN ""
    ELSE IF StartsWith(s, "%2F") THEN "/" \o DecodeValue(SubSeq(s, 4, Len(s)))
    ELSE IF StartsWith(s, "%25") THEN "%" \o DecodeValue(SubSeq(s, 4, Len(s)))
    ELSE IF StartsWith(s, "+") THEN " " \o DecodeValue(SubSeq(s, 2, Len(s)))
    ELSE SubSeq(s, 1, 1) \o DecodeValue(SubSeq(s, 2, Len(s)))

\* NextResponse.redirect to a URL of the request's origin
Redirect(pathname, search) ==
    [ id |-> 1, kind |-> "redirect", pathname |-> pathname,
      search |-> search, setCookie |-> FALSE ]

\* NextResponse.next: the request goes on to the path it asked for, with the
\* cookies the client wrote, if any
supabaseResponse(r) ==
    [ id |-> 1, kind |-> "next", pathname |-> r.pathname,
      search |-> r.search, setCookie |-> r.setAll ]

middleware(r) ==
    IF isProtectedRoute(r.pathname) /\ r.session = Null
      THEN Redirect("/auth/signin", "?redirect=" \o EncodeValue(r.pathname))
    ELSE IF isAuthRoute(r.pathname) /\ r.session # Null
      THEN Redirect("/dashboard", "")
    ELSE supabaseResponse(r)

\* what the middleware does not touch: the pages' state and the database
MiddlewareFrame ==
    <<page, pc, now, dbVars, currentDate, teamPlayers, announcements, userRole,
      playersResult, announcementsResult, localTeam, previous, reloads, ops,
      writes, form, profile, playerTeam, coachTeamId, teamName, slotVars,
      schedules, loading, error, uiVars>>

\* a request arrives
Arrive ==
    /\ page = "middleware"
    /\ request = NoRow \/ response # NoRow
    /\ request' \in Requests
    /\ response' = NoRow
    /\ UNCHANGED MiddlewareFrame

\* the middleware answers it
Middleware ==
    /\ page = "middleware"
    /\ request # NoRow /\ response = NoRow
    /\ response' = middleware(request)
    /\ UNCHANGED <<MiddlewareFrame, request>>

InitMiddleware ==
    /\ Mounted
    /\ now = 1
    /\ page = "middleware"
    /\ authUser = Null /\ authFails = FALSE
    /\ user_profiles = {} /\ teams = {}
    /\ announcements_tbl = {}
    /\ practice_schedules = {} /\ meeting_schedules = {}
    /\ schedules_tbl = {} /\ game_schedules = {}

NextMiddleware ==
    \/ Arrive
    \/ Middleware

SpecMiddleware == InitMiddleware /\ [][NextMiddleware]_vars

\* the value of the redirect parameter of a query string, read back
RedirectParam(search) ==
    IF StartsWith(search, "?redirect=")
      THEN DecodeValue(SubSeq(search, Len("?redirect=") + 1, Len(search)))
      ELSE "null"

\* the path begins with the characters of one of the four protected prefixes
Protected(pathname) ==
    \E prefix \in {"/dashboard", "/admin", "/coach", "/player"} :
        /\ Len(pathname) >= Len(prefix)
        /\ \A i \in 1..Len(prefix) :
               SubSeq(pathname, i, i) = SubSeq(prefix, i, i)

\* C30: a request without a session for a path that starts with /dashboard,
\* /admin, /coach or /player is answered by a redirect to /auth/signin whose
\* redirect parameter reads back as the path asked for; a request with a
\* session for /auth/signin or /auth/signup is answered by a redirect to
\* /dashboard; every other request goes on to the path and query it asked for
C30_Middleware ==
    response # NoRow =>
        IF Protected(request.pathname) /\ request.session = Null
          THEN /\ response.kind = "redirect"
               /\ response.pathname = "/auth/signin"
               /\ RedirectParam(response.search) = request.pathname
        ELSE IF request.pathname \in {"/auth/signin", "/auth/signup"}
                /\ request.session # Null
          THEN /\ response.kind = "redirect"
               /\ response.pathname = "/dashboard"
               /\ response.search = ""
        ELSE /\ response.kind = "next"
             /\ response.pathname = request.pathname
             /\ response.search = request.search

\* a request without a session for a page below /admin, carrying a query, has
\* been answered by a redirect to /auth/signin?redirect=%2Fadmin%2Fteams
C30_Witness ==
    /\ response # NoRow
    /\ request.pathname = "/admin/teams" /\ request.search = "?tab=1"
    /\ request.session = Null
    /\ response.kind = "redirect" /\ response.pathname = "/auth/signin"
    /\ response.search = "?redirect=%2Fadmin%2Fteams"

====
